---- MODULE Spec2Model ----
(***************************************************************************)
(* A model of the 6502 execution engine of the NES emulator: the           *)
(* processor-status register, the mirrored Bus, the opcode table, the      *)
(* operand-address resolver, the instruction handlers and the run loop.    *)
(*                                                                         *)
(* The CPU struct is a record; every method of the source that takes       *)
(* `&mut self` is an operator from a CPU record to a CPU record, every     *)
(* method that returns a value is an operator to an integer.  A panic      *)
(* (todo!, panic!, expect, a checked-arithmetic overflow) is a negative    *)
(* integer in place of the value, and the `fatal` field of the record      *)
(* once it has unwound to the run loop.  Numbers are written in hex        *)
(* (\hFF) or binary (\b1000) where the source does.                        *)
(***************************************************************************)
EXTENDS Integers, Sequences, FiniteSets, TLC

VARIABLES
    program_counter,     \* CPU.program_counter: u16
    stack_pointer,       \* CPU.stack_pointer: u16
    stack_base,          \* CPU.stack_base: u8 (the spec's stack_offset)
    accumulator,         \* CPU.accumulator: u8
    index_register_x,    \* CPU.index_register_x: u8
    index_register_y,    \* CPU.index_register_y: u8
    processor_status,    \* CPU.processor_status: ProcessorStatus(u8)
    cpu_vram,            \* CPU.bus.cpu_vram: [u8; 2048], as its non-zero bytes
    fatal,               \* 0, or the panic that ended the run
    overflow_checks,     \* the build: TRUE panics on integer overflow (debug), FALSE wraps (release)
    run_state,           \* position of the caller / run loop: "Caller", "Running", "Halted", "Fatal"
    script,              \* the caller's remaining calls, in order
    op                   \* the last call or step: what it was and the CPU before it

vars == <<program_counter, stack_pointer, stack_base, accumulator, index_register_x,
          index_register_y, processor_status, cpu_vram, fatal, overflow_checks,
          run_state, script, op>>

(***************************************************************************)
(* Panics.                                                                 *)
(***************************************************************************)
NO_PANIC == 0
PANIC_PPU == -1
PANIC_MODE == -2
PANIC_OVERFLOW == -3
PANIC_OPCODE == -4
PANIC_TODO == -5

(***************************************************************************)
(* Bit arithmetic on unsigned integers (Rust's &, |, ^ on u8 and u16).     *)
(***************************************************************************)
\* the element of a one-element set: {f(x) : x \in {e}} is f of the value of e
TheOnly(S) == CHOOSE x \in S : TRUE

\* a & b, a | b and a ^ b, bit by bit from bit 0, on the values of the operands
RECURSIVE BitAnd(_, _)
BitAnd(a, b) ==
    TheOnly({IF x = 0 \/ y = 0 THEN 0
             ELSE (x % 2) * (y % 2) + 2 * BitAnd(x \div 2, y \div 2) :
                 x \in {a}, y \in {b}})

RECURSIVE BitOr(_, _)
BitOr(a, b) ==
    TheOnly({IF x = 0 THEN y
             ELSE IF y = 0 THEN x
             ELSE (IF x % 2 = 1 \/ y % 2 = 1 THEN 1 ELSE 0) + 2 * BitOr(x \div 2, y \div 2) :
                 x \in {a}, y \in {b}})

RECURSIVE BitXor(_, _)
BitXor(a, b) ==
    TheOnly({IF x = 0 THEN y
             ELSE IF y = 0 THEN x
             ELSE ((x + y) % 2) + 2 * BitXor(x \div 2, y \div 2) :
                 x \in {a}, y \in {b}})

\* !(x) on a u8
BitNot8(a) == 255 - a

\* x << 1 and x >> 1 on a u8 (the bits shifted out are lost)
Shl8(a) == (a * 2) % 256
Shr8(a) == a \div 2

Byte == 0..255

(***************************************************************************)
(* ProcessorStatusFlags and ProcessorStatus (processor_status.rs).         *)
(***************************************************************************)
Default == \b00000000
CarryFlag == \b00000001
ZeroFlag == \b00000010
InterruptDisable == \b00000100
DecimalMode == \b00001000
BreakCommand == \b00010000
BreakCommand2 == \b00100000
Overflow == \b01000000
Negative == \b10000000

set_flag_true(status, flag) == BitOr(status, flag)

\* a clear that keeps the complement uninverted: status &= flag
set_flag_false_uninverted(status, flag) == BitAnd(status, flag)

set_flag_false(status, flag) == BitAnd(status, BitNot8(flag))

toggle_flag(status, flag) == BitAnd(status, BitNot8(flag))

has_flag_set(status, flag) == BitAnd(status, flag) # 0

reset_flags(status) == 0

\* ProcessorStatus::set_flag(flag, value) is called by cpu.rs and is not in
\* processor_status.rs: the spec's set(flag) / clear(flag), chosen by value.
set_flag(status, flag, value) ==
    IF value THEN set_flag_true(status, flag) ELSE set_flag_false(status, flag)

\* update_zero_and_negative_flags that only ever sets the two flags
update_zero_and_negative_flags_additive(status, value) ==
    LET s1 == IF value = 0 THEN set_flag_true(status, ZeroFlag) ELSE status
    IN IF BitAnd(value, \b10000000) # 0 THEN set_flag_true(s1, Negative) ELSE s1

update_zero_and_negative_flags(status, value) ==
    LET s1 == IF value = 0
              THEN set_flag_true(status, ZeroFlag)
              ELSE set_flag_false(status, ZeroFlag)
    IN IF BitAnd(value, \b10000000) # 0
       THEN set_flag_true(s1, Negative)
       ELSE set_flag_false(s1, Negative)

(***************************************************************************)
(* Bus (bus.rs).  cpu_vram is [0; 2048] at construction; the model keeps   *)
(* the array as the function of its non-zero bytes, so an index outside    *)
(* the domain reads 0 and writing 0 removes the index.                     *)
(***************************************************************************)
RAM == \h0000
RAM_MIRRORS_END == \h1FFF
PPU_REGISTERS == \h2000
PPU_REGISTERS_MIRRORS_END == \h3FFF

VramGet(vram, i) == IF i \in DOMAIN vram THEN vram[i] ELSE 0

VramPut(vram, i, data) ==
    IF data = 0
    THEN [j \in DOMAIN vram \ {i} |-> vram[j]]
    ELSE [j \in DOMAIN vram \cup {i} |-> IF j = i THEN data ELSE vram[j]]

Bus_new == [j \in {} |-> 0]

\* impl Mem for Bus: read_mem_u8.  The value read, or the todo!() panic.
Bus_read_mem_u8(vram, addr) ==
    IF addr >= RAM /\ addr <= RAM_MIRRORS_END
    THEN VramGet(vram, BitAnd(addr, \b0000011111111111))
    ELSE IF addr >= PPU_REGISTERS /\ addr <= PPU_REGISTERS_MIRRORS_END
    THEN PANIC_PPU
    ELSE 0

\* a peripheral window of the eight registers only, without their mirrors
Bus_write_panics_registers_only(addr) ==
    addr >= PPU_REGISTERS /\ addr <= PPU_REGISTERS + 7

\* impl Mem for Bus: write_mem_u8.  TRUE when the write ends in todo!().
Bus_write_panics(addr) ==
    addr >= PPU_REGISTERS /\ addr <= PPU_REGISTERS_MIRRORS_END

\* write_mem_u8 keeping ten address bits instead of eleven
Bus_write_mem_u8_ten_bits(vram, addr, data) ==
    IF addr >= RAM /\ addr <= RAM_MIRRORS_END
    THEN VramPut(vram, BitAnd(addr, \b1111111111), data)
    ELSE vram

\* write_mem_u8 with the catch-all arm storing into the RAM as a mirror does
Bus_write_mem_u8_mirrored_everywhere(vram, addr, data) ==
    VramPut(vram, BitAnd(addr, \b11111111111), data)

\* write_mem_u8 storing at the address as given: a write through a mirror
\* does not reach the cell the other mirrors read
Bus_write_mem_u8_unmirrored(vram, addr, data) ==
    IF addr >= RAM /\ addr <= RAM_MIRRORS_END
    THEN VramPut(vram, addr, data)
    ELSE vram

Bus_write_mem_u8(vram, addr, data) ==
    IF addr >= RAM /\ addr <= RAM_MIRRORS_END
    THEN VramPut(vram, BitAnd(addr, \b11111111111), data)
    ELSE vram

(***************************************************************************)
(* The opcode table (opcodes.rs): <<code, mnemonic, bytes, cycles, mode>>  *)
(* in the order of the source's vec!.                                      *)
(***************************************************************************)
CPU_OPCODES == <<
    <<\hA9, "LDA", 2, 2, "Immediate">>,
    <<\hA5, "LDA", 2, 3, "ZeroPage">>,
    <<\hB5, "LDA", 2, 4, "ZeroPageX">>,
    <<\hAD, "LDA", 3, 4, "Absolute">>,
    <<\hBD, "LDA", 3, 4, "AbsoluteX">>,
    <<\hB9, "LDA", 3, 4, "AbsoluteY">>,
    <<\hA1, "LDA", 2, 6, "IndirectX">>,
    <<\hB1, "LDA", 2, 5, "IndirectY">>,
    <<\hA2, "LDX", 2, 2, "Immediate">>,
    <<\hA6, "LDX", 2, 3, "ZeroPage">>,
    <<\hB6, "LDX", 2, 4, "ZeroPageY">>,
    <<\hAE, "LDX", 3, 4, "Absolute">>,
    <<\hBE, "LDX", 3, 4, "AbsoluteY">>,
    <<\hA0, "LDY", 2, 2, "Immediate">>,
    <<\hA4, "LDY", 2, 3, "ZeroPage">>,
    <<\hB4, "LDY", 2, 4, "ZeroPageX">>,
    <<\hAC, "LDY", 3, 4, "Absolute">>,
    <<\hBC, "LDY", 3, 4, "AbsoluteX">>,
    <<\h69, "ADC", 2, 2, "Immediate">>,
    <<\h65, "ADC", 2, 3, "ZeroPage">>,
    <<\h75, "ADC", 2, 4, "ZeroPageX">>,
    <<\h6D, "ADC", 3, 4, "Absolute">>,
    <<\h7D, "ADC", 3, 4, "AbsoluteX">>,
    <<\h79, "ADC", 3, 4, "AbsoluteY">>,
    <<\h61, "ADC", 2, 6, "IndirectX">>,
    <<\h71, "ADC", 2, 5, "IndirectY">>,
    <<\hE9, "SBC", 2, 2, "Immediate">>,
    <<\hE5, "SBC", 2, 3, "ZeroPage">>,
    <<\hF5, "SBC", 2, 4, "ZeroPageX">>,
    <<\hED, "SBC", 3, 4, "Absolute">>,
    <<\hFD, "SBC", 3, 4, "AbsoluteX">>,
    <<\hF9, "SBC", 3, 4, "AbsoluteY">>,
    <<\hE1, "SBC", 2, 6, "IndirectX">>,
    <<\hF1, "SBC", 2, 5, "IndirectY">>,
    <<\h29, "AND", 2, 2, "Immediate">>,
    <<\h25, "AND", 2, 3, "ZeroPage">>,
    <<\h35, "AND", 2, 4, "ZeroPageX">>,
    <<\h2D, "AND", 3, 4, "Absolute">>,
    <<\h3D, "AND", 3, 4, "AbsoluteX">>,
    <<\h39, "AND", 3, 4, "AbsoluteY">>,
    <<\h21, "AND", 2, 6, "IndirectX">>,
    <<\h31, "AND", 2, 5, "IndirectY">>,
    <<\h4A, "LSR", 1, 2, "Accumulator">>,
    <<\h46, "LSR", 2, 5, "ZeroPage">>,
    <<\h56, "LSR", 2, 6, "ZeroPageX">>,
    <<\h4E, "LSR", 3, 6, "Absolute">>,
    <<\h5E, "LSR", 3, 7, "AbsoluteX">>,
    <<\h0A, "ASL", 1, 2, "Accumulator">>,
    <<\h06, "ASL", 2, 5, "ZeroPage">>,
    <<\h16, "ASL", 2, 6, "ZeroPageX">>,
    <<\h0E, "ASL", 3, 6, "Absolute">>,
    <<\h1E, "ASL", 3, 7, "AbsoluteX">>,
    <<\h09, "ORA", 2, 2, "Immediate">>,
    <<\h05, "ORA", 2, 2, "ZeroPage">>,
    <<\h15, "ORA", 2, 2, "ZeroPageX">>,
    <<\h0D, "ORA", 3, 3, "Absolute">>,
    <<\h1D, "ORA", 3, 3, "AbsoluteX">>,
    <<\h19, "ORA", 3, 3, "AbsoluteY">>,
    <<\h01, "ORA", 2, 2, "IndirectX">>,
    <<\h11, "ORA", 2, 2, "IndirectY">>,
    <<\h49, "EOR", 2, 2, "Immediate">>,
    <<\h45, "EOR", 2, 3, "ZeroPage">>,
    <<\h55, "EOR", 2, 4, "ZeroPageX">>,
    <<\h4D, "EOR", 3, 4, "Absolute">>,
    <<\h5D, "EOR", 3, 4, "AbsoluteX">>,
    <<\h59, "EOR", 3, 4, "AbsoluteY">>,
    <<\h41, "EOR", 2, 6, "IndirectX">>,
    <<\h51, "EOR", 2, 5, "IndirectY">>,
    <<\h90, "BCC", 2, 2, "Relative">>,
    <<\hB0, "BCS", 2, 2, "Relative">>,
    <<\hF0, "BEQ", 2, 2, "Relative">>,
    <<\hD0, "BNE", 2, 2, "Relative">>,
    <<\h10, "BPL", 2, 2, "Relative">>,
    <<\h30, "BMI", 2, 2, "Relative">>,
    <<\h50, "BVC", 2, 2, "Relative">>,
    <<\h70, "BVS", 2, 2, "Relative">>,
    <<\h4C, "JMP", 3, 3, "Absolute">>,
    <<\h6C, "JMP", 3, 3, "Indirect">>,
    <<\h20, "JSR", 3, 6, "Absolute">>,
    <<\h60, "RTS", 1, 6, "NoneAddressing">>,
    <<\h18, "CLC", 1, 2, "NoneAddressing">>,
    <<\hD8, "CLD", 1, 2, "NoneAddressing">>,
    <<\h58, "CLI", 1, 2, "NoneAddressing">>,
    <<\hB8, "CLV", 1, 2, "NoneAddressing">>,
    <<\h38, "SEC", 1, 2, "NoneAddressing">>,
    <<\hF8, "SED", 1, 2, "NoneAddressing">>,
    <<\h78, "SEI", 1, 2, "NoneAddressing">>,
    <<\hC9, "CMP", 2, 2, "Immediate">>,
    <<\hC5, "CMP", 2, 2, "ZeroPage">>,
    <<\hD5, "CMP", 2, 2, "ZeroPageX">>,
    <<\hCD, "CMP", 3, 3, "Absolute">>,
    <<\hDD, "CMP", 3, 3, "AbsoluteX">>,
    <<\hD9, "CMP", 3, 3, "AbsoluteY">>,
    <<\hC1, "CMP", 2, 2, "IndirectX">>,
    <<\hD1, "CMP", 2, 2, "IndirectY">>,
    <<\hE0, "CPX", 2, 2, "Immediate">>,
    <<\hE4, "CPX", 2, 3, "ZeroPage">>,
    <<\hEC, "CPX", 3, 4, "Absolute">>,
    <<\hC0, "CPY", 2, 2, "Immediate">>,
    <<\hC4, "CPY", 2, 3, "ZeroPage">>,
    <<\hCC, "CMY", 3, 4, "Absolute">>,
    <<\h24, "BIT", 2, 3, "ZeroPage">>,
    <<\h2C, "BIT", 3, 4, "Absolute">>,
    <<\hAA, "TAX", 1, 2, "NoneAddressing">>,
    <<\hA8, "TAY", 1, 2, "NoneAddressing">>,
    <<\hBA, "TSX", 1, 2, "NoneAddressing">>,
    <<\h8A, "TXA", 1, 2, "NoneAddressing">>,
    <<\h9A, "TXS", 1, 2, "NoneAddressing">>,
    <<\h98, "TYA", 1, 2, "NoneAddressing">>,
    <<\hE6, "INC", 2, 5, "ZeroPage">>,
    <<\hF6, "INC", 2, 6, "ZeroPageX">>,
    <<\hEE, "INC", 3, 6, "Absolute">>,
    <<\hFE, "INC", 3, 7, "AbsoluteX">>,
    <<\hE8, "INX", 1, 2, "NoneAddressing">>,
    <<\hC8, "INY", 1, 2, "NoneAddressing">>,
    <<\hC6, "DEC", 2, 5, "ZeroPage">>,
    <<\hD6, "DEC", 2, 5, "ZeroPageX">>,
    <<\hCE, "DEC", 2, 5, "Absolute">>,
    <<\hDE, "DEC", 2, 5, "AbsoluteX">>,
    <<\hCA, "DEX", 1, 2, "NoneAddressing">>,
    <<\h88, "DEY", 1, 2, "NoneAddressing">>,
    <<\h48, "PHA", 1, 3, "NoneAddressing">>,
    <<\h08, "PHP", 1, 3, "NoneAddressing">>,
    <<\h28, "PLP", 1, 3, "NoneAddressing">>,
    <<\h2A, "ROL", 1, 2, "Accumulator">>,
    <<\h26, "ROL", 2, 5, "ZeroPage">>,
    <<\h36, "ROL", 2, 6, "ZeroPageX">>,
    <<\h2E, "ROL", 3, 6, "Absolute">>,
    <<\h3E, "ROL", 3, 7, "AbsoluteX">>,
    <<\h6A, "ROR", 1, 2, "Accumulator">>,
    <<\h66, "ROR", 2, 5, "ZeroPage">>,
    <<\h76, "ROR", 2, 6, "ZeroPageX">>,
    <<\h6E, "ROR", 3, 6, "Absolute">>,
    <<\h7E, "ROR", 3, 7, "AbsoluteX">>,
    <<\h86, "STX", 2, 3, "ZeroPage">>,
    <<\h96, "STX", 2, 4, "ZeroPageY">>,
    <<\h8E, "STX", 3, 4, "Absolute">>,
    <<\h84, "STY", 2, 3, "ZeroPage">>,
    <<\h94, "STY", 2, 4, "ZeroPageX">>,
    <<\h8C, "STY", 3, 4, "Absolute">>,
    <<\h85, "STA", 2, 3, "ZeroPage">>,
    <<\h95, "STA", 2, 4, "ZeroPageX">>,
    <<\h8D, "STA", 3, 4, "Absolute">>,
    <<\h9D, "STA", 3, 5, "AbsoluteX">>,
    <<\h99, "STA", 3, 5, "AbsoluteY">>,
    <<\h81, "STA", 2, 6, "IndirectX">>,
    <<\h91, "STA", 2, 6, "IndirectY">>,
    <<\hEA, "NOP", 1, 2, "NoneAddressing">>,
    <<\h00, "BRK", 1, 7, "NoneAddressing">>,
    <<\h40, "RTI", 1, 6, "NoneAddressing">>
>>

OpCode_new(code, mnemonic, bytes, cycles, addressing_mode) ==
    [code |-> code, mnemonic |-> mnemonic, bytes |-> bytes, cycles |-> cycles,
     addressing_mode |-> addressing_mode]

\* OPCODES_MAP of a table that also registers the byte 0x02, which no arm of
\* the run loop names
OPCODES_MAP_with_unhandled_entry ==
    LET table == CPU_OPCODES \o << <<\h02, "KIL", 1, 2, "NoneAddressing">> >>
        codes == {table[i][1] : i \in DOMAIN table}
        last(code) == CHOOSE i \in DOMAIN table :
                          /\ table[i][1] = code
                          /\ \A j \in DOMAIN table : table[j][1] = code => j <= i
    IN [code \in codes |->
           LET e == table[last(code)]
           IN OpCode_new(e[1], e[2], e[3], e[4], e[5])]

\* OPCODES_MAP: the HashMap filled by inserting the entries in order, so a
\* later entry with the same code replaces an earlier one.
OPCODES_MAP ==
    LET codes == {CPU_OPCODES[i][1] : i \in DOMAIN CPU_OPCODES}
        last(code) == CHOOSE i \in DOMAIN CPU_OPCODES :
                          /\ CPU_OPCODES[i][1] = code
                          /\ \A j \in DOMAIN CPU_OPCODES :
                                 CPU_OPCODES[j][1] = code => j <= i
    IN [code \in codes |->
           LET e == CPU_OPCODES[last(code)]
           IN OpCode_new(e[1], e[2], e[3], e[4], e[5])]

(***************************************************************************)
(* CPU (cpu.rs).                                                           *)
(***************************************************************************)
CPU_new(checks) ==
    [program_counter |-> 0,
     stack_pointer |-> \h01FF,
     stack_base |-> 0,
     accumulator |-> 0,
     index_register_x |-> 0,
     index_register_y |-> 0,
     processor_status |-> Default,
     cpu_vram |-> Bus_new,
     fatal |-> NO_PANIC,
     overflow_checks |-> checks]

\* a panic that is swallowed: the CPU carries on as it is
Die_ignored(c, code) == c

\* The panic `code` unwinds out of the CPU: what was written before it stays.
Die(c, code) == IF c.fatal # NO_PANIC THEN c ELSE [c EXCEPT !.fatal = code]

\* a + b and a - b on u16 with the build's overflow behaviour; a panic in an
\* operand is passed on.
AddU16(c, a, b) ==
    IF a < 0 THEN a
    ELSE IF b < 0 THEN b
    ELSE IF a + b > \hFFFF
    THEN (IF c.overflow_checks THEN PANIC_OVERFLOW ELSE (a + b) % 65536)
    ELSE a + b

SubU16(c, a, b) ==
    IF a < 0 THEN a
    ELSE IF b < 0 THEN b
    ELSE IF a - b < 0
    THEN (IF c.overflow_checks THEN PANIC_OVERFLOW ELSE (a - b) % 65536)
    ELSE a - b

\* u8::wrapping_add, u8::wrapping_sub and u16::wrapping_add
\* an addition on u8 that keeps the carry out of bit 7
wrapping_add_u8_unwrapped(a, b) == a + b

wrapping_add_u8(a, b) == (a + b) % 256
wrapping_sub_u8(a, b) == (a - b) % 256
wrapping_add_u16(a, b) == (a + b) % 65536

\* (hi as u16) << 8 | (lo as u16); a panic in a byte is passed on, lo first
Word(lo, hi) == IF lo < 0 THEN lo ELSE IF hi < 0 THEN hi ELSE hi * 256 + lo

\* impl Mem for CPU, and the Mem trait's 16-bit accesses (memory.rs)
read_mem_u8(c, addr) ==
    IF addr < 0 THEN addr ELSE Bus_read_mem_u8(c.cpu_vram, addr)

write_mem_u8(c, addr, data) ==
    IF c.fatal # NO_PANIC THEN c
    ELSE IF addr < 0 THEN Die(c, addr)
    ELSE IF data < 0 THEN Die(c, data)
    ELSE IF Bus_write_panics(addr) THEN Die(c, PANIC_PPU)
    ELSE [c EXCEPT !.cpu_vram = Bus_write_mem_u8(c.cpu_vram, addr, data)]

read_mem_u16(c, pos) ==
    Word(read_mem_u8(c, pos), read_mem_u8(c, AddU16(c, pos, 1)))

write_mem_u16(c, pos, data) ==
    write_mem_u8(write_mem_u8(c, pos, BitAnd(data, \hff)),
                 AddU16(c, pos, 1), data \div 256)

\* get_operand_address whose pointer's high byte is read at ptr + 1 without
\* the wrap to page zero
get_operand_address_unwrapped_pointer(c, mode) ==
    LET zero_page(b, index) == IF b < 0 THEN b ELSE wrapping_add_u8(b, index)
        absolute(w, index) == IF w < 0 THEN w ELSE wrapping_add_u16(w, index)
        deref(ptr) ==
            IF ptr < 0 THEN ptr
            ELSE Word(read_mem_u8(c, ptr), read_mem_u8(c, ptr + 1))
    IN CASE mode = "Immediate" -> c.program_counter
         [] mode = "Relative" -> c.program_counter
         [] mode = "ZeroPage" -> read_mem_u8(c, c.program_counter)
         [] mode = "ZeroPageX" ->
               zero_page(read_mem_u8(c, c.program_counter), c.index_register_x)
         [] mode = "ZeroPageY" ->
               zero_page(read_mem_u8(c, c.program_counter), c.index_register_y)
         [] mode = "Absolute" -> read_mem_u16(c, c.program_counter)
         [] mode = "AbsoluteX" ->
               absolute(read_mem_u16(c, c.program_counter), c.index_register_x)
         [] mode = "AbsoluteY" ->
               absolute(read_mem_u16(c, c.program_counter), c.index_register_y)
         [] mode = "Indirect" -> deref(read_mem_u8(c, c.program_counter))
         [] mode = "IndirectX" ->
               deref(zero_page(read_mem_u8(c, c.program_counter), c.index_register_x))
         [] mode = "IndirectY" ->
               absolute(deref(read_mem_u8(c, c.program_counter)), c.index_register_y)
         [] mode = "NoneAddressing" \/ mode = "Accumulator" -> PANIC_MODE

get_operand_address(c, mode) ==
    LET \* (byte).wrapping_add(register) as u16
        zero_page(b, index) == IF b < 0 THEN b ELSE wrapping_add_u8(b, index)
        \* (word).wrapping_add(register as u16)
        absolute(w, index) == IF w < 0 THEN w ELSE wrapping_add_u16(w, index)
        \* (hi << 8) | lo of the bytes at ptr and ptr.wrapping_add(1), in page zero
        deref(ptr) ==
            IF ptr < 0 THEN ptr
            ELSE Word(read_mem_u8(c, ptr), read_mem_u8(c, wrapping_add_u8(ptr, 1)))
    IN CASE mode = "Immediate" -> c.program_counter
         [] mode = "Relative" -> c.program_counter
         [] mode = "ZeroPage" -> read_mem_u8(c, c.program_counter)
         [] mode = "ZeroPageX" ->
               zero_page(read_mem_u8(c, c.program_counter), c.index_register_x)
         [] mode = "ZeroPageY" ->
               zero_page(read_mem_u8(c, c.program_counter), c.index_register_y)
         [] mode = "Absolute" -> read_mem_u16(c, c.program_counter)
         [] mode = "AbsoluteX" ->
               absolute(read_mem_u16(c, c.program_counter), c.index_register_x)
         [] mode = "AbsoluteY" ->
               absolute(read_mem_u16(c, c.program_counter), c.index_register_y)
         [] mode = "Indirect" -> deref(read_mem_u8(c, c.program_counter))
         [] mode = "IndirectX" ->
               deref(zero_page(read_mem_u8(c, c.program_counter), c.index_register_x))
         [] mode = "IndirectY" ->
               absolute(deref(read_mem_u8(c, c.program_counter)), c.index_register_y)
         [] mode = "NoneAddressing" \/ mode = "Accumulator" -> PANIC_MODE

\* a reset that also clears the accumulator and the stack offset
reset_all_registers(c) ==
    LET c1 == [c EXCEPT !.index_register_x = 0,
                        !.index_register_y = 0,
                        !.accumulator = 0,
                        !.stack_base = 0,
                        !.processor_status = reset_flags(c.processor_status)]
        start == read_mem_u16(c1, \hFFFC)
    IN IF start < 0 THEN Die(c1, start)
       ELSE [c1 EXCEPT !.program_counter = start]

reset(c) ==
    LET c1 == [c EXCEPT !.index_register_x = 0,
                        !.index_register_y = 0,
                        !.processor_status = reset_flags(c.processor_status)]
        start == read_mem_u16(c1, \hFFFC)
    IN IF start < 0 THEN Die(c1, start)
       ELSE [c1 EXCEPT !.program_counter = start]

\* for i in 0..(program.len() as u16): the iterations lo <= i < hi in order,
\* each on the memory the one before left, as the first half of them
\* followed by the second half; a panic ends the loop.
RECURSIVE load_program_range(_, _, _, _)
load_program_range(c, program, lo, hi) ==
    IF lo >= hi \/ c.fatal # NO_PANIC THEN c
    ELSE IF hi = lo + 1
         THEN write_mem_u8(c, AddU16(c, \h0600, lo), program[lo + 1])
         ELSE TheOnly({load_program_range(c1, program, (lo + hi) \div 2, hi) :
                          c1 \in {load_program_range(c, program, lo, (lo + hi) \div 2)}})

load_program(c, program) == load_program_range(c, program, 0, Len(program) % 65536)

\* load_and_run_program up to the call of run(): the run loop's iterations
\* are the steps that follow.
load_and_run_program(c, program) ==
    LET c1 == load_program(c, program)
        c2 == IF c1.fatal # NO_PANIC THEN c1 ELSE reset(c1)
    IN IF c2.fatal # NO_PANIC THEN c2
       ELSE [c2 EXCEPT !.program_counter = \h0600]

(***************************************************************************)
(* Stack and register helpers (cpu.rs, second impl CPU).                   *)
(***************************************************************************)
\* a push whose offset is not wrapped to eight bits
push_stack_unwrapped_offset(c, data) ==
    LET written(c1) ==
            IF c1.fatal # NO_PANIC THEN c1
            ELSE [c1 EXCEPT !.stack_base = wrapping_add_u8_unwrapped(c.stack_base, 1)]
    IN written(write_mem_u8(c, SubU16(c, c.stack_pointer, c.stack_base), data))

push_stack(c, data) ==
    LET written(c1) ==
            IF c1.fatal # NO_PANIC THEN c1
            ELSE [c1 EXCEPT !.stack_base = wrapping_add_u8(c.stack_base, 1)]
    IN written(write_mem_u8(c, SubU16(c, c.stack_pointer, c.stack_base), data))

\* a pop that reads the byte at the offset before moving it
pop_stack_reads_before_moving(c) ==
    [cpu |-> [c EXCEPT !.stack_base = wrapping_sub_u8(c.stack_base, 1)],
     val |-> read_mem_u8(c, SubU16(c, c.stack_pointer, c.stack_base))]

\* pop_stack returns a byte and moves the stack: [cpu, val]
pop_stack(c) ==
    LET c1 == [c EXCEPT !.stack_base = wrapping_sub_u8(c.stack_base, 1)]
    IN [cpu |-> c1,
        val |-> read_mem_u8(c1, SubU16(c1, c1.stack_pointer, c1.stack_base))]

\* push_stack_u16 pushing the low byte before the high byte
push_stack_u16_low_byte_first(c, data) ==
    push_stack(push_stack(c, BitAnd(data, \hff)), data \div 256)

push_stack_u16(c, data) ==
    push_stack(push_stack(c, data \div 256), BitAnd(data, \hff))

\* read_stack_u16 returns a word and moves the stack: [cpu, val]
read_stack_u16(c) ==
    LET r1 == pop_stack(c)
    IN IF r1.val < 0 THEN r1
       ELSE LET r2 == pop_stack(r1.cpu)
            IN [cpu |-> r2.cpu, val |-> Word(r1.val, r2.val)]

set_register_a(c, data) ==
    [c EXCEPT !.accumulator = data,
              !.processor_status = update_zero_and_negative_flags(c.processor_status, data)]

set_register_x(c, data) ==
    [c EXCEPT !.index_register_x = data,
              !.processor_status = update_zero_and_negative_flags(c.processor_status, data)]

set_register_y(c, data) ==
    [c EXCEPT !.index_register_y = data,
              !.processor_status = update_zero_and_negative_flags(c.processor_status, data)]

\* add_to_register_a without the carry-in
add_to_register_a_no_carry_in(c, data) ==
    LET sum == c.accumulator + data
        carry == sum > \hff
        s1 == IF carry
              THEN set_flag_true(c.processor_status, CarryFlag)
              ELSE set_flag_false(c.processor_status, CarryFlag)
        result == sum % 256
        s2 == IF BitAnd(BitAnd(BitXor(data, result), BitXor(result, c.accumulator)), \h80) # 0
              THEN set_flag_true(s1, Overflow)
              ELSE set_flag_false(s1, Overflow)
    IN set_register_a([c EXCEPT !.processor_status = s2], result)

\* add_to_register_a with Overflow taken from the carry out of bit 7
add_to_register_a_overflow_is_carry(c, data) ==
    LET sum == c.accumulator + data
               + (IF has_flag_set(c.processor_status, CarryFlag) THEN 1 ELSE 0)
        carry == sum > \hff
        s1 == IF carry
              THEN set_flag_true(c.processor_status, CarryFlag)
              ELSE set_flag_false(c.processor_status, CarryFlag)
        result == sum % 256
        s2 == IF carry
              THEN set_flag_true(s1, Overflow)
              ELSE set_flag_false(s1, Overflow)
    IN set_register_a([c EXCEPT !.processor_status = s2], result)

add_to_register_a(c, data) ==
    LET sum == c.accumulator + data
               + (IF has_flag_set(c.processor_status, CarryFlag) THEN 1 ELSE 0)
        carry == sum > \hff
        s1 == IF carry
              THEN set_flag_true(c.processor_status, CarryFlag)
              ELSE set_flag_false(c.processor_status, CarryFlag)
        result == sum % 256
        s2 == IF BitAnd(BitAnd(BitXor(data, result), BitXor(result, c.accumulator)), \h80) # 0
              THEN set_flag_true(s1, Overflow)
              ELSE set_flag_false(s1, Overflow)
    IN set_register_a([c EXCEPT !.processor_status = s2], result)

\* The operand byte of an instruction: the address by `mode`, then the read.
Operand(c, mode) == read_mem_u8(c, get_operand_address(c, mode))

\* c with its status register replaced
WithStatus(c, status) == [c EXCEPT !.processor_status = status]

(***************************************************************************)
(* Instruction handlers (cpu.rs).                                          *)
(***************************************************************************)
adc(c, mode) ==
    LET add(value) == IF value < 0 THEN Die(c, value) ELSE add_to_register_a(c, value)
    IN add(Operand(c, mode))

\* the two's-complement negation alone, without the subtraction of 1
sbc_operand_negation_only(value) == (256 - value) % 256

\* ((value as i8).wrapping_neg().wrapping_sub(1)) as u8
sbc_operand(value) == wrapping_sub_u8((256 - value) % 256, 1)

sbc(c, mode) ==
    LET add(value) ==
            IF value < 0 THEN Die(c, value)
            ELSE add_to_register_a(c, sbc_operand(value))
    IN add(Operand(c, mode))

lda(c, mode) ==
    LET load(value) == IF value < 0 THEN Die(c, value) ELSE set_register_a(c, value)
    IN load(Operand(c, mode))

ldx(c, mode) ==
    LET load(value) == IF value < 0 THEN Die(c, value) ELSE set_register_x(c, value)
    IN load(Operand(c, mode))

ldy(c, mode) ==
    LET load(value) == IF value < 0 THEN Die(c, value) ELSE set_register_y(c, value)
    IN load(Operand(c, mode))

and(c, mode) ==
    LET mask(val) ==
            IF val < 0 THEN Die(c, val)
            ELSE set_register_a(c, BitAnd(c.accumulator, val))
    IN mask(Operand(c, mode))

asl(c, mode) ==
    LET shift(addr, val) ==
            IF val < 0 THEN Die(c, val)
            ELSE write_mem_u8(
                     WithStatus(c, set_flag(c.processor_status, CarryFlag, val * 2 > \hFF)),
                     addr, (val * 2) % 256)
        at(addr) == shift(addr, read_mem_u8(c, addr))
    IN at(get_operand_address(c, mode))

asl_acc(c) ==
    LET res == c.accumulator * 2
    IN set_register_a(
           WithStatus(c, set_flag(c.processor_status, CarryFlag, res > \hFF)),
           res % 256)

branch(c) ==
    LET jump == read_mem_u8(c, c.program_counter)
    IN IF jump < 0 THEN Die(c, jump)
       ELSE LET jump_as_u16 == IF jump >= 128 THEN jump + \hFF00 ELSE jump
            IN [c EXCEPT !.program_counter =
                   wrapping_add_u16(wrapping_add_u16(c.program_counter, 1), jump_as_u16)]

bcc(c) == IF has_flag_set(c.processor_status, CarryFlag) = FALSE THEN branch(c) ELSE c

bcs(c) == IF has_flag_set(c.processor_status, CarryFlag) = TRUE THEN branch(c) ELSE c

beq(c) == IF has_flag_set(c.processor_status, ZeroFlag) = TRUE THEN branch(c) ELSE c

bne(c) == IF has_flag_set(c.processor_status, ZeroFlag) = FALSE THEN branch(c) ELSE c

bpl(c) == IF has_flag_set(c.processor_status, Negative) = FALSE THEN branch(c) ELSE c

bmi(c) == IF has_flag_set(c.processor_status, Negative) = TRUE THEN branch(c) ELSE c

bit(c, mode) ==
    LET flags(res) ==
            LET s1 == IF res = 0
                      THEN set_flag_true(c.processor_status, ZeroFlag)
                      ELSE c.processor_status
            IN set_flag(set_flag(s1, Negative, BitAnd(res \div 64, 1) # 0),
                        Overflow, BitAnd(res \div 128, 1) # 0)
        test(mem) ==
            IF mem < 0 THEN Die(c, mem)
            ELSE WithStatus(c, flags(BitAnd(c.accumulator, mem)))
    IN test(Operand(c, mode))

\* bvc and bvs add the displacement byte, unsigned, to the program counter
overflow_branch(c) ==
    LET addr == read_mem_u8(c, c.program_counter)
        pc == AddU16(c, c.program_counter, addr)
    IN IF pc < 0 THEN Die(c, pc) ELSE [c EXCEPT !.program_counter = pc]

bvc(c) == IF has_flag_set(c.processor_status, Overflow) = FALSE THEN overflow_branch(c) ELSE c

bvs(c) == IF has_flag_set(c.processor_status, Overflow) = TRUE THEN overflow_branch(c) ELSE c

\* set_compare_flags with Negative taken from bit 7 of the difference a - b
set_compare_flags_negative_of_difference(c, a, b) ==
    LET s == c.processor_status
        n == BitAnd(wrapping_sub_u8(a, b) \div 128, 1) # 0
    IN IF a < b
       THEN WithStatus(c, set_flag(set_flag_false(set_flag_false(s, ZeroFlag), CarryFlag),
                                   Negative, n))
       ELSE IF a = b
       THEN WithStatus(c, set_flag_false(set_flag_true(set_flag_true(s, ZeroFlag), CarryFlag),
                                         Negative))
       ELSE WithStatus(c, set_flag(set_flag_true(set_flag_false(s, ZeroFlag), CarryFlag),
                                   Negative, n))

set_compare_flags(c, a, b) ==
    LET s == c.processor_status
    IN IF a < b
       THEN WithStatus(c, set_flag(set_flag_false(set_flag_false(s, ZeroFlag), CarryFlag),
                                   Negative, BitAnd(a \div 128, 1) # 0))
       ELSE IF a = b
       THEN WithStatus(c, set_flag_false(set_flag_true(set_flag_true(s, ZeroFlag), CarryFlag),
                                         Negative))
       ELSE WithStatus(c, set_flag(set_flag_true(set_flag_false(s, ZeroFlag), CarryFlag),
                                   Negative, BitAnd(a \div 128, 1) # 0))

cmp(c, mode) ==
    LET compare(val) ==
            IF val < 0 THEN Die(c, val) ELSE set_compare_flags(c, c.accumulator, val)
    IN compare(Operand(c, mode))

cpx(c, mode) ==
    LET compare(val) ==
            IF val < 0 THEN Die(c, val) ELSE set_compare_flags(c, c.index_register_x, val)
    IN compare(Operand(c, mode))

cpy(c, mode) ==
    LET compare(val) ==
            IF val < 0 THEN Die(c, val) ELSE set_compare_flags(c, c.index_register_y, val)
    IN compare(Operand(c, mode))

dec(c, mode) ==
    LET flags(c1, val) ==
            IF c1.fatal # NO_PANIC THEN c1
            ELSE WithStatus(c1, update_zero_and_negative_flags(c1.processor_status, val))
        store(addr, m) ==
            IF m < 0 THEN Die(c, m)
            ELSE flags(write_mem_u8(c, addr, wrapping_sub_u8(m, 1)), wrapping_sub_u8(m, 1))
        at(addr) == store(addr, read_mem_u8(c, addr))
    IN at(get_operand_address(c, mode))

inc(c, mode) ==
    LET flags(c1, val) ==
            IF c1.fatal # NO_PANIC THEN c1
            ELSE WithStatus(c1, update_zero_and_negative_flags(c1.processor_status, val))
        store(addr, m) ==
            IF m < 0 THEN Die(c, m)
            ELSE flags(write_mem_u8(c, addr, wrapping_add_u8(m, 1)), wrapping_add_u8(m, 1))
        at(addr) == store(addr, read_mem_u8(c, addr))
    IN at(get_operand_address(c, mode))

eor(c, mode) ==
    LET result(xor_res) ==
            [c EXCEPT !.accumulator = xor_res,
                      !.processor_status =
                          update_zero_and_negative_flags(c.processor_status, xor_res)]
        xor(val) ==
            IF val < 0 THEN Die(c, val) ELSE result(BitXor(c.accumulator, val))
    IN xor(Operand(c, mode))

lsr(c, mode) ==
    LET flags(c1, res) ==
            IF c1.fatal # NO_PANIC THEN c1
            ELSE WithStatus(c1, update_zero_and_negative_flags(
                                    set_flag(c1.processor_status, CarryFlag,
                                             BitAnd(res, 1) = 1),
                                    res))
        shift(addr, val) ==
            IF val < 0 THEN Die(c, val)
            ELSE flags(write_mem_u8(c, addr, val \div 2), val \div 2)
        at(addr) == shift(addr, read_mem_u8(c, addr))
    IN at(get_operand_address(c, mode))

lsr_acc(c) ==
    LET data == c.accumulator
        s1 == IF BitAnd(data, 1) = 1
              THEN set_flag_true(c.processor_status, CarryFlag)
              ELSE set_flag_false(c.processor_status, CarryFlag)
    IN set_register_a(WithStatus(c, s1), Shr8(data))

ora(c, mode) ==
    LET result(a) ==
            [c EXCEPT !.accumulator = a,
                      !.processor_status =
                          update_zero_and_negative_flags(c.processor_status, a)]
        or(val) ==
            IF val < 0 THEN Die(c, val) ELSE result(BitOr(c.accumulator, val))
    IN or(Operand(c, mode))

rol_acc(c) ==
    LET old_carry == has_flag_set(c.processor_status, CarryFlag)
        val == IF old_carry THEN BitOr(Shl8(c.accumulator), 1) ELSE Shl8(c.accumulator)
    IN [c EXCEPT !.processor_status = set_flag(c.processor_status, CarryFlag, val \div 128 = 1),
                 !.accumulator = val]

\* rol that takes Carry from bit 7 of the rotated byte, as rol_acc does
rol_carry_from_result(c, mode) ==
    LET rotate(addr, mem_val) ==
            IF mem_val < 0 THEN Die(c, mem_val)
            ELSE write_mem_u8(
                     WithStatus(c, set_flag(c.processor_status, CarryFlag,
                                            Shl8(mem_val) \div 128 = 1)),
                     addr,
                     IF has_flag_set(c.processor_status, CarryFlag) = TRUE
                     THEN BitOr(Shl8(mem_val), 1)
                     ELSE Shl8(mem_val))
        at(addr) == rotate(addr, read_mem_u8(c, addr))
    IN at(get_operand_address(c, mode))

rol(c, mode) ==
    LET rotate(addr, mem_val) ==
            IF mem_val < 0 THEN Die(c, mem_val)
            ELSE write_mem_u8(
                     WithStatus(c, set_flag(c.processor_status, CarryFlag,
                                            mem_val \div 128 = 1)),
                     addr,
                     IF has_flag_set(c.processor_status, CarryFlag) = TRUE
                     THEN BitOr(Shl8(mem_val), 1)
                     ELSE Shl8(mem_val))
        at(addr) == rotate(addr, read_mem_u8(c, addr))
    IN at(get_operand_address(c, mode))

ror_acc(c) ==
    LET val == IF has_flag_set(c.processor_status, CarryFlag) = TRUE
               THEN BitOr(Shr8(c.accumulator), \b10000000)
               ELSE Shr8(c.accumulator)
    IN [c EXCEPT !.processor_status =
                     set_flag(c.processor_status, CarryFlag, BitAnd(c.accumulator, 1) # 0),
                 !.accumulator = val]

ror(c, mode) ==
    LET rotate(addr, mem_val) ==
            IF mem_val < 0 THEN Die(c, mem_val)
            ELSE write_mem_u8(
                     WithStatus(c, set_flag(c.processor_status, CarryFlag,
                                            BitAnd(c.accumulator, 1) # 0)),
                     addr,
                     IF has_flag_set(c.processor_status, CarryFlag) = TRUE
                     THEN BitOr(Shr8(mem_val), \b10000000)
                     ELSE Shr8(mem_val))
        at(addr) == rotate(addr, read_mem_u8(c, addr))
    IN at(get_operand_address(c, mode))

rti(c) ==
    LET r1 == pop_stack(c)
        r2 == pop_stack(r1.cpu)
        r3 == pop_stack(r2.cpu)
    IN IF r1.val < 0 THEN Die(r1.cpu, r1.val)
       ELSE IF r2.val < 0 THEN Die(r2.cpu, r2.val)
       ELSE IF r3.val < 0 THEN Die(r3.cpu, r3.val)
       ELSE [r3.cpu EXCEPT !.processor_status = r1.val,
                           !.program_counter = Word(r2.val, r3.val)]

sta(c, mode) == write_mem_u8(c, get_operand_address(c, mode), c.accumulator)

stx(c, mode) == write_mem_u8(c, get_operand_address(c, mode), c.index_register_x)

sty(c, mode) == write_mem_u8(c, get_operand_address(c, mode), c.index_register_y)

(***************************************************************************)
(* The run loop (cpu.rs, run_with_callback): one iteration.                *)
(***************************************************************************)
\* self.stack_pointer - self.stack_base.wrapping_sub(1) as u16, read through the bus
stack_top(c) ==
    read_mem_u8(c, SubU16(c, c.stack_pointer, wrapping_sub_u8(c.stack_base, 1)))

jmp_absolute(c) ==
    LET jump(mem_address) ==
            IF mem_address < 0 THEN Die(c, mem_address)
            ELSE [c EXCEPT !.program_counter = mem_address]
    IN jump(read_mem_u16(c, c.program_counter))

\* the arm of 0x6C without the page-boundary case: the high byte always
\* comes from the address after the pointer
jmp_indirect_across_pages(c) ==
    LET jump(indirect_ref) ==
            IF indirect_ref < 0 THEN Die(c, indirect_ref)
            ELSE [c EXCEPT !.program_counter = indirect_ref]
        through(mem_address) ==
            IF mem_address < 0 THEN Die(c, mem_address)
            ELSE jump(read_mem_u16(c, mem_address))
    IN through(read_mem_u16(c, c.program_counter))

jmp_indirect(c) ==
    LET jump(indirect_ref) ==
            IF indirect_ref < 0 THEN Die(c, indirect_ref)
            ELSE [c EXCEPT !.program_counter = indirect_ref]
        through(mem_address) ==
            IF mem_address < 0 THEN Die(c, mem_address)
            ELSE IF BitAnd(mem_address, \h00FF) = \h00FF
            THEN jump(Word(read_mem_u8(c, mem_address),
                           read_mem_u8(c, BitAnd(mem_address, \hFF00))))
            ELSE jump(read_mem_u16(c, mem_address))
    IN through(read_mem_u16(c, c.program_counter))

jsr(c) ==
    LET jump(c1, target_address) ==
            IF c1.fatal # NO_PANIC THEN c1
            ELSE IF target_address < 0 THEN Die(c1, target_address)
            ELSE [c1 EXCEPT !.program_counter = target_address]
        pushed(c1) == jump(c1, read_mem_u16(c1, c1.program_counter))
        call(ret) == IF ret < 0 THEN Die(c, ret) ELSE pushed(push_stack_u16(c, ret))
    IN call(SubU16(c, AddU16(c, c.program_counter, 2), 1))

rts(c) ==
    LET return(r, pc) ==
            IF pc < 0 THEN Die(r.cpu, pc)
            ELSE [r.cpu EXCEPT !.program_counter = pc]
        popped(r) == return(r, AddU16(c, r.val, 1))
    IN popped(read_stack_u16(c))

tsx(c) ==
    LET v == stack_top(c)
    IN IF v < 0 THEN Die(c, v) ELSE set_register_x(c, v)

\* the arm of 0x9A, which the opcode table names TXS
txs(c) ==
    LET v == stack_top(c)
    IN IF v < 0 THEN Die(c, v) ELSE set_register_y(c, v)

\* the arm of 0x08, which the opcode table names PHP
php(c) ==
    LET r == pop_stack(c)
    IN IF r.val < 0 THEN Die(r.cpu, r.val)
       ELSE [r.cpu EXCEPT !.accumulator = r.val]

plp(c) ==
    LET r == pop_stack(c)
    IN IF r.val < 0 THEN Die(r.cpu, r.val)
       ELSE [r.cpu EXCEPT !.processor_status = r.val]

\* match code { ... }: the arm of the opcode byte
dispatch(c, code, opcode) ==
    LET mode == opcode.addressing_mode
        s == c.processor_status
    IN CASE code \in {\hA9, \hA5, \hB5, \hAD, \hBD, \hB9, \hA1, \hB1} -> lda(c, mode)
         [] code \in {\hA2, \hA6, \hB6, \hAE, \hBE} -> ldx(c, mode)
         [] code \in {\hA0, \hA4, \hB4, \hAC, \hBC} -> ldy(c, mode)
         [] code \in {\h69, \h65, \h75, \h6D, \h7D, \h79, \h61, \h71} -> adc(c, mode)
         [] code \in {\hE9, \hE5, \hF5, \hED, \hFD, \hF9, \hE1, \hF1} -> sbc(c, mode)
         [] code \in {\h29, \h25, \h35, \h2D, \h3D, \h39, \h21, \h31} -> and(c, mode)
         [] code = \h4A -> lsr_acc(c)
         [] code \in {\h46, \h56, \h4E, \h5E} -> lsr(c, mode)
         [] code = \h0A -> asl_acc(c)
         [] code \in {\h06, \h16, \h0E, \h1E} -> asl(c, mode)
         [] code \in {\h09, \h05, \h15, \h0D, \h1D, \h19, \h01, \h11} -> ora(c, mode)
         [] code \in {\h49, \h45, \h55, \h4D, \h5D, \h59, \h41, \h51} -> eor(c, mode)
         [] code = \hB0 -> bcs(c)
         [] code = \hF0 -> beq(c)
         [] code = \hD0 -> bne(c)
         [] code = \h10 -> bpl(c)
         [] code = \h30 -> bmi(c)
         [] code = \h50 -> bvc(c)
         [] code = \h70 -> bvs(c)
         [] code = \h90 -> bcc(c)
         [] code = \h4C -> jmp_absolute(c)
         [] code = \h6C -> jmp_indirect(c)
         [] code = \h20 -> jsr(c)
         [] code = \h60 -> rts(c)
         [] code = \h18 -> WithStatus(c, set_flag_false(s, CarryFlag))
         [] code = \hD8 -> WithStatus(c, set_flag_false(s, DecimalMode))
         [] code = \h58 -> WithStatus(c, set_flag_false(s, InterruptDisable))
         [] code = \hB8 -> WithStatus(c, set_flag_false(s, Overflow))
         [] code = \h38 -> WithStatus(c, set_flag_true(s, CarryFlag))
         [] code = \hF8 -> WithStatus(c, set_flag_true(s, DecimalMode))
         [] code = \h78 -> WithStatus(c, set_flag_true(s, InterruptDisable))
         [] code \in {\h24, \h2C} -> bit(c, mode)
         [] code \in {\hC9, \hC5, \hD5, \hCD, \hDD, \hD9, \hC1, \hD1} -> cmp(c, mode)
         [] code \in {\hE0, \hE4, \hEC} -> cpx(c, mode)
         [] code \in {\hC0, \hC4, \hCC} -> cpy(c, mode)
         [] code = \hAA -> set_register_x(c, c.accumulator)
         [] code = \hA8 -> set_register_y(c, c.accumulator)
         [] code = \hBA -> tsx(c)
         [] code = \h8A -> set_register_a(c, c.index_register_x)
         [] code = \h9A -> txs(c)
         [] code = \h98 -> set_register_a(c, c.index_register_y)
         [] code \in {\hE6, \hF6, \hEE, \hFE} -> inc(c, mode)
         [] code = \hE8 -> set_register_x(c, wrapping_add_u8(c.index_register_x, 1))
         [] code = \hC8 -> set_register_y(c, wrapping_add_u8(c.index_register_y, 1))
         [] code \in {\hC6, \hD6, \hCE, \hDE} -> dec(c, mode)
         [] code = \hCA -> set_register_x(c, wrapping_sub_u8(c.index_register_x, 1))
         [] code = \h88 -> set_register_y(c, wrapping_sub_u8(c.index_register_y, 1))
         [] code = \h48 -> push_stack(c, c.accumulator)
         [] code = \h08 -> php(c)
         [] code = \h28 -> plp(c)
         [] code = \h2A -> rol_acc(c)
         [] code \in {\h26, \h36, \h2E, \h3E} -> rol(c, mode)
         [] code = \h6A -> ror_acc(c)
         [] code \in {\h66, \h76, \h6E, \h7E} -> ror(c, mode)
         [] code \in {\h85, \h95, \h8D, \h9D, \h99, \h81, \h91} -> sta(c, mode)
         [] code \in {\h84, \h94, \h8C} -> sty(c, mode)
         [] code \in {\h86, \h96, \h8E} -> stx(c, mode)
         [] code = \hEA -> c
         [] code = \h40 -> rti(c)
         [] code = \h00 -> c
         [] OTHER -> Die(c, PANIC_TODO)

\* The opcode byte the next iteration fetches, or the panic of the fetch.
fetch(c) == read_mem_u8(c, c.program_counter)

\* One iteration of the loop, from the fetch to the advance of the program
\* counter (or to `continue`, `break` or a panic).
run_step(c) ==
    LET \* after the match: the program counter moves past the operand unless
        \* the arm moved it
        advance(c2, code, opcode, program_counter_state) ==
            IF c2.fatal # NO_PANIC \/ code = \hEA \/ code = \h00 THEN c2
            ELSE IF program_counter_state = c2.program_counter
            THEN LET pc2 == AddU16(c2, c2.program_counter, opcode.bytes - 1)
                 IN IF pc2 < 0 THEN Die(c2, pc2)
                    ELSE [c2 EXCEPT !.program_counter = pc2]
            ELSE c2
        execute(c1, code) ==
            IF code \notin DOMAIN OPCODES_MAP THEN Die(c1, PANIC_OPCODE)
            ELSE TheOnly({advance(c2, code, OPCODES_MAP[code], c1.program_counter) :
                             c2 \in {dispatch(c1, code, OPCODES_MAP[code])}})
        fetched(code, pc1) ==
            IF code < 0 THEN Die(c, code)
            ELSE IF pc1 < 0 THEN Die(c, pc1)
            ELSE execute([c EXCEPT !.program_counter = pc1], code)
    IN TheOnly({fetched(code, pc1) :
                   code \in {fetch(c)}, pc1 \in {AddU16(c, c.program_counter, 1)}})

\* The iteration ends the loop with `break`.
run_breaks(c) ==
    /\ fetch(c) = \h00
    /\ AddU16(c, c.program_counter, 1) >= 0

(***************************************************************************)
(* The state machine: the caller's calls, then the run loop's iterations.  *)
(***************************************************************************)
CPU ==
    [program_counter |-> program_counter,
     stack_pointer |-> stack_pointer,
     stack_base |-> stack_base,
     accumulator |-> accumulator,
     index_register_x |-> index_register_x,
     index_register_y |-> index_register_y,
     processor_status |-> processor_status,
     cpu_vram |-> cpu_vram,
     fatal |-> fatal,
     overflow_checks |-> overflow_checks]

\* The CPU is c in the next state.
Becomes(c) ==
    /\ program_counter' = c.program_counter
    /\ stack_pointer' = c.stack_pointer
    /\ stack_base' = c.stack_base
    /\ accumulator' = c.accumulator
    /\ index_register_x' = c.index_register_x
    /\ index_register_y' = c.index_register_y
    /\ processor_status' = c.processor_status
    /\ cpu_vram' = c.cpu_vram
    /\ fatal' = c.fatal
    /\ overflow_checks' = c.overflow_checks

\* The CPU is c, the caller has the calls of s left and the run loop is at rs.
StartsAs(c, s, rs) ==
    /\ program_counter = c.program_counter
    /\ stack_pointer = c.stack_pointer
    /\ stack_base = c.stack_base
    /\ accumulator = c.accumulator
    /\ index_register_x = c.index_register_x
    /\ index_register_y = c.index_register_y
    /\ processor_status = c.processor_status
    /\ cpu_vram = c.cpu_vram
    /\ fatal = c.fatal
    /\ overflow_checks = c.overflow_checks
    /\ script = s
    /\ run_state = rs
    /\ op = [kind |-> "new", code |-> -1, arg |-> -1, pre |-> c]

\* A call of the caller: [call, a, b].  The public fields are assigned
\* directly, as the tests and main.rs do.
Call(c, k) ==
    CASE k.call = "write_mem_u8" -> write_mem_u8(c, k.a, k.b)
      [] k.call = "write_mem_u16" -> write_mem_u16(c, k.a, k.b)
      [] k.call = "load_program" -> load_program(c, k.a)
      [] k.call = "load_and_run_program" -> load_and_run_program(c, k.a)
      [] k.call = "reset" -> reset(c)
      [] k.call = "run" -> c
      [] k.call = "accumulator" -> [c EXCEPT !.accumulator = k.a]
      [] k.call = "index_register_x" -> [c EXCEPT !.index_register_x = k.a]
      [] k.call = "index_register_y" -> [c EXCEPT !.index_register_y = k.a]
      [] k.call = "processor_status" -> [c EXCEPT !.processor_status = k.a]
      [] k.call = "program_counter" -> [c EXCEPT !.program_counter = k.a]

Caller ==
    /\ run_state = "Caller"
    /\ script # <<>>
    /\ \E k \in {Head(script)} : \E c \in {Call(CPU, k)} :
          /\ Becomes(c)
          /\ run_state' = IF c.fatal # NO_PANIC THEN "Fatal"
                          ELSE IF k.call \in {"run", "load_and_run_program"} THEN "Running"
                          ELSE "Caller"
          /\ op' = [kind |-> k.call, code |-> -1, arg |-> k, pre |-> CPU]
    /\ script' = Tail(script)

Step ==
    /\ run_state = "Running"
    /\ \E c \in {run_step(CPU)} :
          /\ Becomes(c)
          /\ run_state' = IF c.fatal # NO_PANIC THEN "Fatal"
                          ELSE IF run_breaks(CPU) THEN "Halted"
                          ELSE "Running"
          /\ op' = [kind |-> "step", code |-> fetch(CPU), arg |-> -1, pre |-> CPU]
    /\ UNCHANGED script

Next == Caller \/ Step

\* The calls of the caller
K(call, a, b) == [call |-> call, a |-> a, b |-> b]
write_call(addr, data) == K("write_mem_u8", addr, data)
load_and_run_call(program) == K("load_and_run_program", program, -1)

\* The CPU after the calls of s, in order (a panic ends them).
RECURSIVE After(_, _)
After(c, s) ==
    IF s = <<>> \/ c.fatal # NO_PANIC THEN c
    ELSE After(Call(c, Head(s)), Tail(s))

\* A CPU about to execute `program` at 0x0600 with the registers and flags
\* the caller assigned: load_program, reset, the public fields, then run.
Prepared(checks, program, a, x, y, status) ==
    LET c == reset(load_program(CPU_new(checks), program))
    IN [c EXCEPT !.accumulator = a,
                 !.index_register_x = x,
                 !.index_register_y = y,
                 !.processor_status = status,
                 !.program_counter = \h0600]

(***************************************************************************)
(* ADC with an immediate operand, for every accumulator, operand and       *)
(* carry.  The program counter stays near 0x0600, where no arithmetic      *)
(* overflows, so one build stands for both.                                *)
(***************************************************************************)
InitAdc ==
    \E a \in Byte, m \in Byte, status \in {Default, CarryFlag} :
        \E c \in {Prepared(TRUE, <<\h69, m>>, a, 0, 0, status)} :
            StartsAs(c, <<>>, "Running")

SpecAdc == InitAdc /\ [][Step]_vars

(***************************************************************************)
(* What the claims read off a state.                                       *)
(***************************************************************************)
\* bit i of v
Bit(v, i) == (v \div (2 ^ i)) % 2

\* the byte after the opcode of the step just taken, in the memory before it
OperandByte == read_mem_u8(op.pre, op.pre.program_counter + 1)

\* the step just taken fetched opcode `code`
Stepped(code) == op.kind = "step" /\ op.code = code

\* a byte as a two's-complement number
Signed(v) == IF v >= 128 THEN v - 256 ELSE v

\* C2: after ADC the accumulator is (A + M + C) mod 256 and Carry is set iff
\* A + M + C > 0xFF, for every accumulator A, operand M and carry-in C.
C2_AdcSumAndCarry ==
    Stepped(\h69) =>
        LET sum == op.pre.accumulator + OperandByte + Bit(op.pre.processor_status, 0)
        IN /\ fatal = NO_PANIC
           /\ accumulator = sum % 256
           /\ (Bit(processor_status, 0) = 1) <=> (sum > 255)

\* 0xFF ADC 0x01 with no carry has given accumulator 0x00, Carry set, Zero set
C2_Witness ==
    /\ Stepped(\h69)
    /\ op.pre.accumulator = 255 /\ OperandByte = 1 /\ Bit(op.pre.processor_status, 0) = 0
    /\ accumulator = 0 /\ Bit(processor_status, 0) = 1 /\ Bit(processor_status, 1) = 1

\* C3: after ADC Overflow is set iff the signed sum of A, M and C lies outside
\* -128..127, that is iff A and M have the same sign bit and the result's sign
\* bit differs; otherwise it is cleared.
C3_AdcOverflow ==
    Stepped(\h69) =>
        LET A == op.pre.accumulator
            M == OperandByte
            signed_sum == Signed(A) + Signed(M) + Bit(op.pre.processor_status, 0)
            V == Bit(processor_status, 6) = 1
        IN /\ V <=> (signed_sum < -128 \/ signed_sum > 127)
           /\ V <=> (Bit(A, 7) = Bit(M, 7) /\ Bit(accumulator, 7) # Bit(A, 7))

\* 0x50 ADC 0x50 with no carry has given 0xA0 with Overflow set and Carry clear
C3_Witness ==
    /\ Stepped(\h69)
    /\ op.pre.accumulator = 80 /\ OperandByte = 80 /\ Bit(op.pre.processor_status, 0) = 0
    /\ accumulator = 160 /\ Bit(processor_status, 6) = 1 /\ Bit(processor_status, 0) = 0

(***************************************************************************)
(* SBC with an immediate operand, for every accumulator, operand and       *)
(* carry.                                                                  *)
(***************************************************************************)
InitSbc ==
    \E a \in Byte, m \in Byte, status \in {Default, CarryFlag} :
        \E c \in {Prepared(TRUE, <<\hE9, m>>, a, 0, 0, status)} :
            StartsAs(c, <<>>, "Running")

SpecSbc == InitSbc /\ [][Step]_vars

\* the CPU before the step just taken, with ADC #m in place of its instruction
WithAdcOf(m) ==
    write_mem_u8(write_mem_u8(op.pre, op.pre.program_counter, \h69),
                 op.pre.program_counter + 1, m)

\* C4: SBC leaves the accumulator, Carry, Overflow, Zero and Negative that ADC
\* leaves with operand (-M - 1) mod 256: the accumulator is (A - M - (1 - C))
\* mod 256 and Carry is set iff no borrow occurred, A >= M + (1 - C).
C4_SbcIsAdcOfComplement ==
    Stepped(\hE9) =>
        LET A == op.pre.accumulator
            M == OperandByte
            C == Bit(op.pre.processor_status, 0)
            adc_result == run_step(WithAdcOf((0 - M - 1) % 256))
        IN /\ fatal = NO_PANIC
           /\ accumulator = adc_result.accumulator
           /\ processor_status = adc_result.processor_status
           /\ accumulator = (A - M - (1 - C)) % 256
           /\ (Bit(processor_status, 0) = 1) <=> (A >= M + (1 - C))

\* 0x03 SBC 0x05 with Carry set has given 0xFE with a borrow (Carry clear) and Negative set
C4_Witness ==
    /\ Stepped(\hE9)
    /\ op.pre.accumulator = 3 /\ OperandByte = 5 /\ Bit(op.pre.processor_status, 0) = 1
    /\ accumulator = 254 /\ Bit(processor_status, 0) = 0 /\ Bit(processor_status, 7) = 1

(***************************************************************************)
(* The register setters, reached through the immediate loads, the          *)
(* transfers and the register increments and decrements, for every byte    *)
(* and from every combination of Zero and Negative.                        *)
(***************************************************************************)
SetterCodes == {\hA9, \hA2, \hA0, \hAA, \hA8, \h8A, \h98, \hE8, \hC8, \hCA, \h88}

InitSetters ==
    \E code \in SetterCodes, v \in Byte,
       status \in {Default, ZeroFlag, Negative, ZeroFlag + Negative, \hFF} :
        \E c \in {IF code \in {\hA9, \hA2, \hA0}
                  THEN Prepared(TRUE, <<code, v>>, 1, 2, 3, status)
                  ELSE Prepared(TRUE, <<code>>, v, (v + 85) % 256, (v + 170) % 256, status)} :
            StartsAs(c, <<>>, "Running")

SpecSetters == InitSetters /\ [][Step]_vars

\* the register the arm of `code` sets through its setter, and the value it passes
SetterRegister(code) ==
    CASE code \in {\hA9, \h8A, \h98} -> "accumulator"
      [] code \in {\hA2, \hAA, \hE8, \hCA} -> "index_register_x"
      [] code \in {\hA0, \hA8, \hC8, \h88} -> "index_register_y"

SetterValue(code) ==
    CASE code \in {\hA9, \hA2, \hA0} -> OperandByte
      [] code \in {\hAA, \hA8} -> op.pre.accumulator
      [] code = \h8A -> op.pre.index_register_x
      [] code = \h98 -> op.pre.index_register_y
      [] code = \hE8 -> (op.pre.index_register_x + 1) % 256
      [] code = \hC8 -> (op.pre.index_register_y + 1) % 256
      [] code = \hCA -> (op.pre.index_register_x - 1) % 256
      [] code = \h88 -> (op.pre.index_register_y - 1) % 256

\* C1: after a register setter is called with v the register holds v, Zero is
\* set iff v = 0 and Negative is set iff bit 7 of v is 1, whatever Zero and
\* Negative were before.
C1_SettersUpdateZeroNegative ==
    (op.kind = "step" /\ op.code \in SetterCodes) =>
        LET v == SetterValue(op.code)
        IN /\ fatal = NO_PANIC
           /\ CPU[SetterRegister(op.code)] = v
           /\ (Bit(processor_status, 1) = 1) <=> (v = 0)
           /\ (Bit(processor_status, 7) = 1) <=> (Bit(v, 7) = 1)

\* LDA #0x80 from a status with Zero set and Negative clear has cleared Zero and set Negative
C1_Witness ==
    /\ Stepped(\hA9)
    /\ OperandByte = 128
    /\ Bit(op.pre.processor_status, 1) = 1 /\ Bit(op.pre.processor_status, 7) = 0
    /\ accumulator = 128
    /\ Bit(processor_status, 1) = 0 /\ Bit(processor_status, 7) = 1

(***************************************************************************)
(* The Bus under a caller that writes bytes through write_mem_u8: the RAM  *)
(* window with its three mirrors, the PPU window and an address past both. *)
(***************************************************************************)
\* physical RAM offsets the caller addresses, through each of the four images
BusOffsets == {\h0000, \h0001, \h0400, \h07FF}

BusAddresses ==
    {a + k * \h0800 : a \in BusOffsets, k \in 0..3} \cup {\h2000, \h3FFF, \h4000, \hFFFF}

BusData == {\h00, \h01, \hFF}

InitBus == StartsAs(CPU_new(TRUE), <<>>, "Caller")

\* cpu.write_mem_u8(addr, data)
Write ==
    /\ run_state = "Caller"
    /\ \E addr \in BusAddresses, data \in BusData :
          \E c \in {write_mem_u8(CPU, addr, data)} :
             /\ Becomes(c)
             /\ run_state' = IF c.fatal # NO_PANIC THEN "Fatal" ELSE "Caller"
             /\ op' = [kind |-> "write_mem_u8", code |-> -1,
                       arg |-> write_call(addr, data), pre |-> CPU]
    /\ UNCHANGED script

SpecBus == InitBus /\ [][Write]_vars

\* C5: after a write of x to any of a, a+0x0800, a+0x1000, a+0x1800 with a in
\* 0x0000..0x07FF, a read of each of the four addresses returns x, and no RAM
\* byte at another physical offset changes.
C5_RamMirroring ==
    (op.kind = "write_mem_u8" /\ op.arg.a >= \h0000 /\ op.arg.a <= \h1FFF) =>
        LET a == op.arg.a % \h0800
            x == op.arg.b
        IN /\ fatal = NO_PANIC
           /\ \A k \in 0..3 : read_mem_u8(CPU, a + k * \h0800) = x
           /\ \A p \in \h0000..\h07FF :
                  p # a => VramGet(cpu_vram, p) = VramGet(op.pre.cpu_vram, p)

\* 0xFF written through 0x1FFF over a 0x01 at offset 0x07FF reads back through
\* 0x07FF and 0x0FFF, and the 0x01 at offset 0x0400 is still there
C5_Witness ==
    /\ op.kind = "write_mem_u8" /\ op.arg.a = \h1FFF /\ op.arg.b = \hFF
    /\ VramGet(op.pre.cpu_vram, \h07FF) = \h01
    /\ read_mem_u8(CPU, \h07FF) = \hFF /\ read_mem_u8(CPU, \h0FFF) = \hFF
    /\ VramGet(op.pre.cpu_vram, \h0400) = \h01 /\ read_mem_u8(CPU, \h0400) = \h01
    /\ fatal = NO_PANIC

(***************************************************************************)
(* The stack helpers under a caller that pushes and pops bytes and words,  *)
(* from every stack offset earlier instructions can have left.  `script`   *)
(* holds the pops the caller owes, topmost first: one entry per byte       *)
(* pushed and not yet popped.                                              *)
(***************************************************************************)
\* the most bytes pushed and not yet popped
MaxDepth == 4

StackWords == {\h80FF, \h0100}

StackBytes == {\h7F}

\* The owed pops of a pushed word V, low byte on top: the upper entry is the
\* read_stack_u16 that returns V, the lower one the pop of V's high byte.
\* Each entry carries the stack offset before its push.
OwedWord(V, base) ==
    <<K("read_stack_u16", V, base), K("pop_stack", V \div 256, base)>>

\* the byte an owed entry holds in memory, and the offset its pop restores
OwedByte(e) == IF e.call = "read_stack_u16" THEN e.a % 256 ELSE e.a

OwedBase(e) == IF e.call = "read_stack_u16" THEN (e.b + 1) % 256 ELSE e.b

InitStack ==
    \E base \in Byte :
        StartsAs([CPU_new(TRUE) EXCEPT !.stack_base = base], <<>>, "Caller")

\* self.push_stack_u16(V)
Push16 ==
    /\ run_state = "Caller"
    /\ Len(script) + 2 <= MaxDepth
    /\ \E V \in StackWords : \E c \in {push_stack_u16(CPU, V)} :
          /\ Becomes(c)
          /\ run_state' = IF c.fatal # NO_PANIC THEN "Fatal" ELSE "Caller"
          /\ op' = [kind |-> "push_stack_u16", code |-> -1, arg |-> V, pre |-> CPU]
          /\ script' = OwedWord(V, stack_base) \o script

\* self.push_stack(v)
Push8 ==
    /\ run_state = "Caller"
    /\ Len(script) + 1 <= MaxDepth
    /\ \E v \in StackBytes : \E c \in {push_stack(CPU, v)} :
          /\ Becomes(c)
          /\ run_state' = IF c.fatal # NO_PANIC THEN "Fatal" ELSE "Caller"
          /\ op' = [kind |-> "push_stack", code |-> -1, arg |-> v, pre |-> CPU]
          /\ script' = <<K("pop_stack", v, stack_base)>> \o script

\* self.read_stack_u16(): op.code is the word returned
Pop16 ==
    /\ run_state = "Caller"
    /\ Len(script) >= 2
    /\ \E r \in {read_stack_u16(CPU)} :
          /\ Becomes(IF r.val < 0 THEN Die(r.cpu, r.val) ELSE r.cpu)
          /\ run_state' = IF r.val < 0 THEN "Fatal" ELSE "Caller"
          /\ op' = [kind |-> "read_stack_u16", code |-> r.val,
                    arg |-> SubSeq(script, 1, 2), pre |-> CPU]
    /\ script' = SubSeq(script, 3, Len(script))

\* self.pop_stack(): op.code is the byte returned
Pop8 ==
    /\ run_state = "Caller"
    /\ Len(script) >= 1
    /\ \E r \in {pop_stack(CPU)} :
          /\ Becomes(IF r.val < 0 THEN Die(r.cpu, r.val) ELSE r.cpu)
          /\ run_state' = IF r.val < 0 THEN "Fatal" ELSE "Caller"
          /\ op' = [kind |-> "pop_stack", code |-> r.val,
                    arg |-> SubSeq(script, 1, 1), pre |-> CPU]
    /\ script' = Tail(script)

StackNext == Push16 \/ Push8 \/ Pop16 \/ Pop8

SpecStack == InitStack /\ [][StackNext]_vars

\* C6: from any stack offset, a 16-bit pop returns the word V of the 16-bit
\* push it matches and restores the offset the push started from; every pop
\* returns the bytes pushed last and not yet popped and restores the offset
\* before their push, so that a balanced sequence of pushes and pops ends at
\* the offset it started from.
C6_StackDiscipline ==
    /\ op.kind = "read_stack_u16" =>
          /\ fatal = NO_PANIC
          /\ op.code = OwedByte(op.arg[1]) + 256 * OwedByte(op.arg[2])
          /\ stack_base = OwedBase(op.arg[2])
          /\ op.arg[1].call = "read_stack_u16" =>
                op.code = op.arg[1].a /\ stack_base = op.arg[1].b
    /\ op.kind = "pop_stack" =>
          /\ fatal = NO_PANIC
          /\ op.code = OwedByte(op.arg[1])
          /\ stack_base = OwedBase(op.arg[1])
    /\ op.kind \in {"push_stack_u16", "push_stack"} => fatal = NO_PANIC

\* 0x80FF pushed from offset 255, where the offset wraps between its two
\* bytes, has been popped as 0x80FF and the offset is 255 again
C6_Witness ==
    /\ op.kind = "read_stack_u16"
    /\ op.arg[1] = K("read_stack_u16", \h80FF, 255)
    /\ op.pre.stack_base = 1
    /\ op.code = \h80FF
    /\ stack_base = 255
    /\ script = <<>>

(***************************************************************************)
(* CMP, CPX and CPY with an immediate operand: CMP for every accumulator   *)
(* and operand, CPX and CPY for every operand against registers at the     *)
(* edges of the byte range, each from a status with no flag and with       *)
(* every flag set.                                                         *)
(***************************************************************************)
CompareCodes == {\hC9, \hE0, \hC0}

EdgeBytes == {\h00, \h01, \h7F, \h80, \hFF}

InitCompare ==
    \E code \in CompareCodes, b \in Byte, status \in {\h00, \hFF} :
        \E a \in (IF code = \hC9 THEN Byte ELSE EdgeBytes) :
            \E c \in {Prepared(TRUE, <<code, b>>,
                               IF code = \hC9 THEN a ELSE \h11,
                               IF code = \hE0 THEN a ELSE \h22,
                               IF code = \hC0 THEN a ELSE \h33,
                               status)} :
                StartsAs(c, <<>>, "Running")

SpecCompare == InitCompare /\ [][Step]_vars

\* the register the arm of `code` compares
CompareRegister(code) ==
    CASE code = \hC9 -> "accumulator"
      [] code = \hE0 -> "index_register_x"
      [] code = \hC0 -> "index_register_y"

\* C7: after CMP, CPX or CPY of register a with operand b, as unsigned bytes:
\* a < b gives Zero = 0, Carry = 0, Negative = bit 7 of a; a = b gives Zero = 1,
\* Carry = 1, Negative = 0; a > b gives Zero = 0, Carry = 1, Negative = bit 7
\* of a; the registers are unchanged.
C7_CompareFlags ==
    (op.kind = "step" /\ op.code \in CompareCodes) =>
        LET a == op.pre[CompareRegister(op.code)]
            b == OperandByte
            Z == Bit(processor_status, 1)
            C == Bit(processor_status, 0)
            N == Bit(processor_status, 7)
        IN /\ fatal = NO_PANIC
           /\ a < b => Z = 0 /\ C = 0 /\ N = Bit(a, 7)
           /\ a = b => Z = 1 /\ C = 1 /\ N = 0
           /\ a > b => Z = 0 /\ C = 1 /\ N = Bit(a, 7)
           /\ accumulator = op.pre.accumulator
           /\ index_register_x = op.pre.index_register_x
           /\ index_register_y = op.pre.index_register_y

\* CMP of 0x81 with 0x02, the repository's test: Carry set, Zero clear and
\* Negative set from bit 7 of 0x81, although 0x81 - 0x02 = 0x7F has bit 7 clear
C7_Witness ==
    /\ Stepped(\hC9)
    /\ op.pre.accumulator = \h81 /\ OperandByte = \h02
    /\ op.pre.processor_status = \h00
    /\ accumulator = \h81
    /\ Bit(processor_status, 0) = 1
    /\ Bit(processor_status, 1) = 0
    /\ Bit(processor_status, 7) = 1

(***************************************************************************)
(* The engine under its callers: a fresh CPU of either build, the calls of *)
(* one caller in order, then the iterations of the run loop.               *)
(***************************************************************************)
\* test_5_ops_working_together with v for 0xc0: LDA #v, TAX, INX, BRK
EndToEnd(v) == <<\hA9, v, \hAA, \hE8, \h00>>

\* JMP (ptr)
JmpIndirect(ptr) == <<\h6C, ptr % 256, ptr \div 256>>

\* The pointers of the indirect jumps: in page zero, at the end of a RAM
\* page, at the end of RAM, in a RAM mirror, in the PPU window and past it.
JmpPointers == {\h0010, \h02FF, \h07FF, \h10FF, \h30FF, \h40FF}

\* the first address of ptr's page, and of the page after it
PageStart(ptr) == ptr - (ptr % 256)

NextPage(ptr) == PageStart(ptr) + 256

\* low and high bytes stored for the jump target
JmpLow == {\h01, \h80}

JmpHigh == {\h06, \h50}

\* The caller stores a target for JMP (ptr): low byte at ptr, one byte at the
\* start of ptr's page, another at the address after ptr (or, with ptr in the
\* middle of a page, at ptr + 1 and at the start of the next page), then loads
\* and runs the jump.
JmpScript(ptr, lo, near, far) ==
    <<write_call(ptr, lo),
      write_call(IF ptr % 256 = 255 THEN PageStart(ptr) ELSE ptr + 1, near),
      write_call(NextPage(ptr), far),
      load_and_run_call(JmpIndirect(ptr))>>

Scripts ==
    {<<load_and_run_call(EndToEnd(v))>> : v \in Byte}
    \cup {JmpScript(ptr, lo, hi, \h60) : ptr \in JmpPointers, lo \in JmpLow, hi \in JmpHigh}
    \cup {<<load_and_run_call(JmpIndirect(ptr))>> : ptr \in JmpPointers}

Init ==
    \E checks \in BOOLEAN, s \in Scripts :
        StartsAs(CPU_new(checks), s, "Caller")

Spec == Init /\ [][Next]_vars

\* The caller's code and the run loop are sequential code on one thread:
\* a call that can be made is made, an iteration that can run runs.
FairSpec == Spec /\ WF_vars(Caller) /\ WF_vars(Step)

\* the operand word of the instruction the step just taken executed
OperandWord == OperandByte + 256 * read_mem_u8(op.pre, op.pre.program_counter + 2)

\* C8: after JMP (P), if the low byte of P is 0xFF the program counter is
\* read8(P) | (read8(P & 0xFF00) << 8), otherwise it is read16(P).
C8_IndirectJmp ==
    (Stepped(\h6C) /\ fatal = NO_PANIC) =>
        LET P == OperandWord
        IN program_counter =
               IF P % 256 = 255
               THEN read_mem_u8(op.pre, P) + 256 * read_mem_u8(op.pre, PageStart(P))
               ELSE read_mem_u8(op.pre, P) + 256 * read_mem_u8(op.pre, P + 1)

\* the caller's stores of the layout 0x80 at ptr, 0x50 at the start of ptr's
\* page and 0x60 at the start of the next page
PageLayout(ptr) ==
    {write_call(ptr, \h80), write_call(PageStart(ptr), \h50), write_call(NextPage(ptr), \h60)}

\* the step just taken executed JMP (ptr) over the layout of PageLayout(ptr)
JumpedOverLayout(ptr) ==
    /\ Stepped(\h6C)
    /\ OperandWord = ptr
    /\ \A w \in PageLayout(ptr) : Bus_read_mem_u8(op.pre.cpu_vram, w.a) = w.b

HoldsEndToEnd(v) ==
    \A i \in 1..5 : read_mem_u8(CPU, \h0600 + i - 1) = EndToEnd(v)[i]

\* load_and_run_program(EndToEnd(v)) has just been called on a fresh CPU
LoadedEndToEnd(v) ==
    /\ op.kind = "load_and_run_program"
    /\ op.arg.a = EndToEnd(v)
    /\ op.pre = CPU_new(overflow_checks)
    /\ HoldsEndToEnd(v)
    /\ run_state = "Running"

\* C10: for every byte v, loading and running [LDA #v, TAX, INX, BRK] on a
\* fresh CPU ends with the run loop halted, the accumulator v and index
\* register X (v + 1) mod 256.
C10_EndToEnd ==
    (\E v \in Byte : LoadedEndToEnd(v)) ~>
        (/\ run_state = "Halted"
         /\ fatal = NO_PANIC
         /\ \E v \in Byte :
               /\ HoldsEndToEnd(v)
               /\ accumulator = v
               /\ index_register_x = (v + 1) % 256)

\* the run of [LDA #0xC0, TAX, INX, BRK] has halted at BRK with accumulator
\* 0xC0 and X 0xC1
C10_Witness ==
    /\ run_state = "Halted"
    /\ Stepped(\h00)
    /\ op.pre.program_counter = \h0604
    /\ HoldsEndToEnd(\hC0)
    /\ accumulator = \hC0
    /\ index_register_x = \hC1

(***************************************************************************)
(* LSR on memory: every byte m at the operand's address 0x0002, reached    *)
(* through each of the four addressing modes of the memory form, from a    *)
(* status with no flag and with every flag set.                            *)
(***************************************************************************)
\* the memory forms of LSR, each with operand bytes and X that resolve to 0x0002
LsrForms ==
    {[program |-> <<\h46, \h02>>, x |-> \h00],
     [program |-> <<\h56, \h01>>, x |-> \h01],
     [program |-> <<\h4E, \h02, \h00>>, x |-> \h00],
     [program |-> <<\h5E, \h01, \h00>>, x |-> \h01]}

LsrCodes == {f.program[1] : f \in LsrForms}

LsrAddress == {\h0002}

InitLsr ==
    \E f \in LsrForms, m \in Byte, status \in {\h00, \hFF}, addr \in LsrAddress :
        \E c \in {write_mem_u8(Prepared(TRUE, f.program, \h11, f.x, \h33, status),
                               addr, m)} :
            StartsAs(c, <<>>, "Running")

SpecLsr == InitLsr /\ [][Step]_vars

\* C11: after LSR of the byte m at the resolved address, the byte there is
\* m >> 1, Carry is bit 0 of m, Zero is set exactly when the result is 0 and
\* Negative is bit 7 of the result.
C11_LsrMemory ==
    (op.kind = "step" /\ op.code \in LsrCodes) =>
        \A addr \in LsrAddress :
            LET m == read_mem_u8(op.pre, addr)
            IN /\ fatal = NO_PANIC
               /\ read_mem_u8(CPU, addr) = m \div 2
               /\ Bit(processor_status, 0) = m % 2
               /\ Bit(processor_status, 1) = (IF m \div 2 = 0 THEN 1 ELSE 0)
               /\ Bit(processor_status, 7) = Bit(m \div 2, 7)

(***************************************************************************)
(* reset under its callers: a caller that stores a start address at the    *)
(* reset vector through the CPU's memory interface and resets, for every   *)
(* 16-bit address; and reset, alone or inside load_and_run_program, on CPUs *)
(* whose registers, flags, stack offset and RAM earlier work has left.     *)
(***************************************************************************)
ResetVector == {\hFFFC}

\* TAX, BRK
ResetProgram == <<\hAA, \h00>>

\* The CPU with the registers, the stack offset and one byte of RAM as an
\* earlier run left them; the stack pointer itself is never assigned.
Used(checks, a, x, y, status, base, pc, byte) ==
    LET c == write_mem_u8(CPU_new(checks), \h0010, byte)
    IN [c EXCEPT !.accumulator = a,
                 !.index_register_x = x,
                 !.index_register_y = y,
                 !.processor_status = status,
                 !.stack_base = base,
                 !.program_counter = pc]

InitReset ==
    \/ \E a \in 0 .. 65535, vector \in ResetVector :
          StartsAs(CPU_new(TRUE),
                   <<K("write_mem_u16", vector, a), K("reset", -1, -1)>>, "Caller")
    \/ \E a \in {\h00, \h55, \hFF}, x \in {\h00, \h7F}, y \in {\h00, \h80},
          status \in {\h00, \h81, \hFF}, base \in {\h00, \hFD, \hFF},
          pc \in {\h0000, \h0600, \hFFFF}, byte \in {\h00, \hEA} :
          \E c \in {Used(TRUE, a, x, y, status, base, pc, byte)} :
              \/ StartsAs(c, <<K("reset", -1, -1)>>, "Caller")
              \/ StartsAs(c, <<load_and_run_call(ResetProgram)>>, "Caller")

SpecReset == InitReset /\ [][Next]_vars

\* C12: when the caller has written the start address a at the reset vector
\* 0xFFFC with write_mem_u16 and then calls reset, program_counter is a.
C12_ResetVector ==
    [][(/\ op.kind = "write_mem_u16"
        /\ op.arg.a \in ResetVector
        /\ op'.kind = "reset") => program_counter' = op.arg.b]_vars

LongLength == 513

LoadBytes == {\h00, \hA9, \hFF}

\* a program of n bytes, none of them zero
LongProgram(n) == [i \in 1 .. n |-> (i % 255) + 1]

LoadPrograms ==
    {<<>>} \cup {<<b>> : b \in LoadBytes} \cup {<<b1, b2>> : b1, b2 \in LoadBytes}
        \cup {LongProgram(LongLength)}

InitLoad ==
    \E p \in LoadPrograms, a \in {\h00, \h55}, x \in {\h00, \h7F}, status \in {\h00, \hFF},
       base \in {\h00, \hFD}, pc \in {\h0000, \h0600}, byte \in {\h00, \hEA} :
        StartsAs(Used(TRUE, a, x, \h80, status, base, pc, byte),
                 <<K("load_program", p, -1)>>, "Caller")

SpecLoad == InitLoad /\ [][Caller]_vars

\* C14: after load_program(p) the byte read at 0x0600 + i is p[i] for every
\* i < len(p), every RAM byte outside 0x0600 .. 0x0600 + len(p) - 1 is as
\* before, and no register or flag has changed.
C14_LoadProgram ==
    op.kind = "load_program" =>
        LET p == op.arg.a
        IN /\ fatal = NO_PANIC
           /\ \A i \in 0 .. Len(p) - 1 : read_mem_u8(CPU, \h0600 + i) = p[i + 1]
           /\ \A addr \in 0 .. \h07FF :
                  (addr < \h0600 \/ addr >= \h0600 + Len(p)) =>
                      VramGet(cpu_vram, addr) = VramGet(op.pre.cpu_vram, addr)
           /\ accumulator = op.pre.accumulator
           /\ index_register_x = op.pre.index_register_x
           /\ index_register_y = op.pre.index_register_y
           /\ processor_status = op.pre.processor_status
           /\ program_counter = op.pre.program_counter
           /\ stack_base = op.pre.stack_base
           /\ stack_pointer = op.pre.stack_pointer

(***************************************************************************)
(* The Bus under a caller that reads and writes bytes: at both ends of the *)
(* RAM and in a mirror of it, in the peripheral window (registers, their   *)
(* mirrors, both ends) and at undecoded addresses (both ends, the reset    *)
(* vector, and addresses whose low eleven bits are those of the RAM bytes  *)
(* in use).                                                                *)
(***************************************************************************)
RamSample == {\h0000, \h07FF, \h0FFF}

PpuSample == {\h2000, \h2001, \h2007, \h2008, \h27FF, \h3000, \h3FFF}

UndecodedSample == {\h4000, \h4001, \h47FF, \h7FFF, \h8000, \hFFFC, \hFFFF}

MemAddresses == RamSample \cup PpuSample \cup UndecodedSample

MemData == {\h00, \h01, \hFF}

\* cpu.write_mem_u8(addr, data)
Write8 ==
    /\ run_state = "Caller"
    /\ \E addr \in MemAddresses, data \in MemData :
          \E c \in {write_mem_u8(CPU, addr, data)} :
             /\ Becomes(c)
             /\ run_state' = IF c.fatal # NO_PANIC THEN "Fatal" ELSE "Caller"
             /\ op' = [kind |-> "write_mem_u8", code |-> -1,
                       arg |-> write_call(addr, data), pre |-> CPU]
    /\ UNCHANGED script

\* cpu.read_mem_u8(addr): op.code is the byte returned
Read8 ==
    /\ run_state = "Caller"
    /\ \E addr \in MemAddresses :
          \E v \in {read_mem_u8(CPU, addr)} :
             /\ Becomes(IF v < 0 THEN Die(CPU, v) ELSE CPU)
             /\ run_state' = IF v < 0 THEN "Fatal" ELSE "Caller"
             /\ op' = [kind |-> "read_mem_u8", code |-> v,
                       arg |-> K("read_mem_u8", addr, -1), pre |-> CPU]
    /\ UNCHANGED script

MemNext == Write8 \/ Read8

SpecMem == InitBus /\ [][MemNext]_vars

IsAccess == op.kind \in {"read_mem_u8", "write_mem_u8"}

\* C15: a read of an address in 0x4000..0xFFFF returns 0 and a write to one
\* changes no byte of RAM; neither is fatal, and after such a write every
\* address of the range still reads 0.
C15_UndecodedAddresses ==
    (IsAccess /\ op.arg.a >= \h4000 /\ op.arg.a <= \hFFFF) =>
        /\ fatal = NO_PANIC
        /\ run_state = "Caller"
        /\ cpu_vram = op.pre.cpu_vram
        /\ op.kind = "read_mem_u8" => op.code = 0
        /\ op.kind = "write_mem_u8" =>
              \A addr \in \h4000 .. \hFFFF : read_mem_u8(CPU, addr) = 0

\* 0xFF written to 0x47FF, over a RAM holding 0xFF at 0x0000 and 0 at 0x07FF:
\* 0x47FF and 0x07FF read 0 afterwards
C15_Witness ==
    /\ op.kind = "write_mem_u8" /\ op.arg.a = \h47FF /\ op.arg.b = \hFF
    /\ VramGet(op.pre.cpu_vram, \h0000) = \hFF
    /\ read_mem_u8(CPU, \h47FF) = 0
    /\ read_mem_u8(CPU, \h07FF) = 0
    /\ read_mem_u8(CPU, \h0000) = \hFF
    /\ fatal = NO_PANIC

\* C16: a read or a write of an address in 0x2000..0x3FFF ends in the fatal
\* "PPU is not supported yet" and leaves every RAM byte as it was; from a
\* CPU that is running this holds for every address of the window.
C16_PeripheralWindow ==
    /\ (IsAccess /\ op.arg.a >= \h2000 /\ op.arg.a <= \h3FFF) =>
          /\ fatal = PANIC_PPU
          /\ run_state = "Fatal"
          /\ cpu_vram = op.pre.cpu_vram
    /\ fatal = NO_PANIC =>
          \A addr \in \h2000 .. \h3FFF :
              /\ read_mem_u8(CPU, addr) = PANIC_PPU
              /\ write_mem_u8(CPU, addr, \hFF).fatal = PANIC_PPU
              /\ write_mem_u8(CPU, addr, \hFF).cpu_vram = cpu_vram

\* a read of 0x3FFF, the last mirror of the window, has ended the run with
\* the RAM byte written before still in place
C16_Witness ==
    /\ op.kind = "read_mem_u8" /\ op.arg.a = \h3FFF
    /\ fatal = PANIC_PPU
    /\ run_state = "Fatal"
    /\ VramGet(cpu_vram, \h0000) = \hFF

(***************************************************************************)
(* The run loop on one instruction: every byte 0x00..0xFF as the opcode at *)
(* 0x0600, followed by operand bytes that address page zero, page two or   *)
(* the top of the address space, in either build, from registers and flags *)
(* in use.  The bytes after the instruction are 0x00.                      *)
(***************************************************************************)
DecodeOperands == {<<\h10, \h00>>, <<\hFF, \h02>>, <<\hFF, \hFF>>}

InitDecode ==
    \E code \in Byte, operand \in DecodeOperands, checks \in BOOLEAN,
       a \in {\h00, \h81}, x \in {\h00, \h01}, status \in {\h00, \hFF} :
        \E c \in {Prepared(checks, <<code>> \o operand, a, x, \h01, status)} :
            StartsAs(c, <<>>, "Running")

SpecDecode == InitDecode /\ [][Step]_vars

\* the step has changed neither a register other than the program counter,
\* nor a flag, nor the stack, nor memory
StepKeptAllButProgramCounter ==
    /\ accumulator = op.pre.accumulator
    /\ index_register_x = op.pre.index_register_x
    /\ index_register_y = op.pre.index_register_y
    /\ processor_status = op.pre.processor_status
    /\ stack_base = op.pre.stack_base
    /\ stack_pointer = op.pre.stack_pointer
    /\ cpu_vram = op.pre.cpu_vram

\* C17: a step that fetches a byte with no entry in the opcode table ends in
\* the fatal "not recognized" state with accumulator, X, Y, flags, stack
\* offset and memory as before the step, and no step follows a fatal state.
C17_UnrecognizedOpcode ==
    /\ (op.kind = "step" /\ op.code >= 0 /\ op.code \notin DOMAIN OPCODES_MAP) =>
          /\ fatal = PANIC_OPCODE
          /\ run_state = "Fatal"
          /\ StepKeptAllButProgramCounter
    /\ run_state = "Fatal" => ~ENABLED Next

\* the byte 0x02, which the table does not hold, was fetched with the
\* accumulator and every flag in use
C17_Witness ==
    /\ Stepped(\h02)
    /\ \h02 \notin DOMAIN OPCODES_MAP
    /\ op.pre.accumulator = \h81 /\ op.pre.processor_status = \hFF
    /\ fatal = PANIC_OPCODE
    /\ accumulator = \h81 /\ processor_status = \hFF

\* C18: a step leaves the loop Halted exactly when the byte it fetched is
\* 0x00; no step follows Halted; and the halting step changes only the
\* program counter, which it moves past the opcode byte.
C18_Halt ==
    /\ op.kind = "step" => (run_state = "Halted" <=> op.code = \h00)
    /\ run_state = "Halted" => ~ENABLED Next
    /\ (op.kind = "step" /\ run_state = "Halted") =>
          /\ StepKeptAllButProgramCounter
          /\ program_counter = (op.pre.program_counter + 1) % 65536

(***************************************************************************)
(* ProcessorStatus under a caller of toggle_flag: from every status byte,  *)
(* each of the eight one-bit flags, any number of times.                   *)
(***************************************************************************)
NamedFlags ==
    {CarryFlag, ZeroFlag, InterruptDisable, DecimalMode,
     BreakCommand, BreakCommand2, Overflow, Negative}

InitStatus ==
    \E status \in Byte :
        StartsAs([CPU_new(TRUE) EXCEPT !.processor_status = status], <<>>, "Caller")

\* cpu.processor_status.toggle_flag(flag): op.code is the flag
Toggle ==
    /\ run_state = "Caller"
    /\ \E flag \in NamedFlags :
          /\ processor_status' = toggle_flag(processor_status, flag)
          /\ op' = [kind |-> "toggle_flag", code |-> flag, arg |-> -1, pre |-> CPU]
    /\ UNCHANGED <<program_counter, stack_pointer, stack_base, accumulator,
                   index_register_x, index_register_y, cpu_vram, fatal,
                   overflow_checks, run_state, script>>

SpecStatus == InitStatus /\ [][Toggle]_vars

\* C19: after toggle_flag(flag) the flag's bit is the inverse of what it was
\* and the other seven bits are as before; a second toggle_flag(flag) gives
\* back the status byte from before the first.
C19_ToggleFlag ==
    op.kind = "toggle_flag" =>
        /\ has_flag_set(processor_status, op.code)
              = ~has_flag_set(op.pre.processor_status, op.code)
        /\ \A other \in NamedFlags \ {op.code} :
              has_flag_set(processor_status, other)
                  = has_flag_set(op.pre.processor_status, other)
        /\ toggle_flag(processor_status, op.code) = op.pre.processor_status

\* JMP, JSR, RTS, RTI, BRK and the branches (the opcodes of mode Relative)
ControlFlowCodes ==
    {\h4C, \h6C, \h20, \h60, \h40, \h00}
        \cup {code \in DOMAIN OPCODES_MAP : OPCODES_MAP[code].addressing_mode = "Relative"}

\* the number of operand bytes get_operand_address reads for the mode
OperandBytes(mode) ==
    CASE mode \in {"NoneAddressing", "Accumulator"} -> 0
      [] mode \in {"Immediate", "ZeroPage", "ZeroPageX", "ZeroPageY",
                   "IndirectX", "IndirectY"} -> 1
      [] mode \in {"Absolute", "AbsoluteX", "AbsoluteY"} -> 2

\* C20: a step that executes an opcode of the table other than a jump, a
\* branch, a call, a return or the break at address a leaves program_counter
\* at a + 1 + k, k the operand bytes of the opcode's addressing mode.
C20_ProgramCounterAdvance ==
    (op.kind = "step" /\ op.code \in DOMAIN OPCODES_MAP \ ControlFlowCodes) =>
        program_counter = op.pre.program_counter + 1
                              + OperandBytes(OPCODES_MAP[op.code].addressing_mode)

(***************************************************************************)
(* The eight branches on one instruction: each branch opcode at 0x0600     *)
(* with every displacement byte, from a status with no flag and with every *)
(* flag set (so each branch is taken once and not taken once), in either   *)
(* build.                                                                  *)
(***************************************************************************)
\* BCC, BCS, BEQ, BNE, BPL, BMI
FlagBranchCodes == {\h90, \hB0, \hF0, \hD0, \h10, \h30}

\* BVC, BVS
OverflowBranchCodes == {\h50, \h70}

InitBranch ==
    \E code \in FlagBranchCodes \cup OverflowBranchCodes, d \in Byte,
       status \in {\h00, \hFF}, checks \in BOOLEAN :
        \E c \in {Prepared(checks, <<code, d>>, \h11, \h22, \h33, status)} :
            StartsAs(c, <<>>, "Running")

SpecBranch == InitBranch /\ [][Step]_vars

\* the flag test of the branch `code` passes on `status`
BranchTaken(code, status) ==
    CASE code = \h90 -> Bit(status, 0) = 0
      [] code = \hB0 -> Bit(status, 0) = 1
      [] code = \hF0 -> Bit(status, 1) = 1
      [] code = \hD0 -> Bit(status, 1) = 0
      [] code = \h10 -> Bit(status, 7) = 0
      [] code = \h30 -> Bit(status, 7) = 1
      [] code = \h50 -> Bit(status, 6) = 0
      [] code = \h70 -> Bit(status, 6) = 1

\* (p + 1 + signext(d)) mod 65536, p the address of the displacement byte d
\* of the branch the last step executed
BranchTarget == (op.pre.program_counter + 1 + 1 + Signed(OperandByte)) % 65536

\* C21: a step that executes BCC, BCS, BEQ, BNE, BPL or BMI with its flag
\* test passing ends with program_counter = (p + 1 + signext(d)) mod 65536,
\* for every displacement byte d at address p, d = 0xFF (target p) included.
C21_TakenBranch ==
    (/\ op.kind = "step"
     /\ op.code \in FlagBranchCodes
     /\ BranchTaken(op.code, op.pre.processor_status)) =>
        /\ fatal = NO_PANIC
        /\ program_counter = BranchTarget

\* C22: a step that executes BVC with Overflow clear or BVS with Overflow set
\* ends with program_counter = (p + 1 + signext(d)) mod 65536, d signed.
C22_OverflowBranch ==
    (/\ op.kind = "step"
     /\ op.code \in OverflowBranchCodes
     /\ BranchTaken(op.code, op.pre.processor_status)) =>
        /\ fatal = NO_PANIC
        /\ program_counter = BranchTarget

(***************************************************************************)
(* Programs that use the stack, run from stack offsets at both ends of the *)
(* byte range.  `script` holds what the program has pushed and not yet     *)
(* popped, topmost first: a "byte" entry for PHA, a "jsr" entry for the    *)
(* return address of a JSR, each with the stack offset before the push.    *)
(***************************************************************************)
Zeros(n) == [i \in 1 .. n |-> \h00]

\* JSR $0610 at 0x0600, BRK after it, and `body` at 0x0610
CallAt10(body) == <<\h20, \h10, \h06>> \o Zeros(13) \o body

StackPrograms ==
    {CallAt10(<<\h60>>),                                  \* RTS
     CallAt10(<<\h48, \h28, \h60>>),                       \* PHA, PLP, RTS
     CallAt10(<<\hE8, \h48, \h48, \h08, \h28, \h60>>),     \* INX, PHA, PHA, 0x08, PLP, RTS
     CallAt10(<<\h48, \h60>>),                             \* PHA, RTS: not balanced
     \* JSR $0620, RTS at 0x0610; PHA, 0x08, RTS at 0x0620
     CallAt10(<<\h20, \h20, \h06, \h60>> \o Zeros(12) \o <<\h48, \h08, \h60>>),
     <<\h20, \h01, \h06, \h60>>,                           \* JSR to its own operand
     <<\hA9, \h01, \h48, \hA9, \h02, \h48, \h28>>,         \* cpu_acc_stack
     <<\h08>>,                                             \* 0x08 alone
     <<\h48, \h08>>,                                       \* PHA, 0x08
     <<\h9A>>,                                             \* 0x9A alone
     <<\h48, \h9A, \hBA>>}                                 \* PHA, 0x9A, TSX

InitStackProgram ==
    \E program \in StackPrograms, base \in {\h00, \h01, \hFE, \hFF},
       a \in {\h00, \h02, \h81}, status \in {\h00, \hC3}, checks \in BOOLEAN :
        \E c \in {Prepared(checks, program, a, \h7F, \h33, status)} :
            StartsAs([c EXCEPT !.stack_base = base], <<>>, "Running")

\* what the iteration on `code` leaves pushed and not yet popped
Tracked(code, pushed, c) ==
    CASE code = \h48 -> <<K("byte", c.accumulator, c.stack_base)>> \o pushed
      [] code = \h20 -> <<K("jsr", c.program_counter, c.stack_base)>> \o pushed
      [] code \in {\h08, \h28} ->
            IF pushed # <<>> /\ Head(pushed).call = "byte" THEN Tail(pushed) ELSE <<>>
      [] code = \h60 ->
            IF pushed # <<>> /\ Head(pushed).call = "jsr" THEN Tail(pushed) ELSE <<>>
      [] OTHER -> pushed

\* the entry a pop of the iteration on `code` takes, if it is of the pop's kind
Taken(code, pushed) ==
    IF /\ pushed # <<>>
       /\ \/ code \in {\h08, \h28} /\ Head(pushed).call = "byte"
          \/ code = \h60 /\ Head(pushed).call = "jsr"
    THEN Head(pushed)
    ELSE K("none", -1, -1)

\* one iteration of the run loop; op.arg is the entry a pop took
TrackedStep ==
    /\ run_state = "Running"
    /\ \E c \in {run_step(CPU)}, code \in {fetch(CPU)} :
          /\ Becomes(c)
          /\ run_state' = IF c.fatal # NO_PANIC THEN "Fatal"
                          ELSE IF run_breaks(CPU) THEN "Halted"
                          ELSE "Running"
          /\ op' = [kind |-> "step", code |-> code,
                    arg |-> Taken(code, script), pre |-> CPU]
          /\ script' = IF c.fatal # NO_PANIC THEN script ELSE Tracked(code, script, CPU)

SpecStackProgram == InitStackProgram /\ [][TrackedStep]_vars

\* the address of the k-th byte pushed from stack offset `base`, k from 0
PushAddress(base, k) == \h01FF - ((base + k) % 256)

\* C23: a JSR at address a leaves a + 2 on the stack, high byte pushed
\* first, and program_counter at its operand; an RTS that takes the entry of
\* that JSR (everything pushed since has been popped) leaves program_counter
\* at a + 3 and the stack offset as it was before the JSR.
C23_CallReturn ==
    /\ (op.kind = "step" /\ op.code = \h20) =>
          LET a == op.pre.program_counter
              base == op.pre.stack_base
          IN /\ fatal = NO_PANIC
             /\ read_mem_u8(CPU, PushAddress(base, 0)) = (a + 2) \div 256
             /\ read_mem_u8(CPU, PushAddress(base, 1)) = (a + 2) % 256
             /\ stack_base = (base + 2) % 256
             /\ program_counter = OperandWord
    /\ (op.kind = "step" /\ op.code = \h60 /\ op.arg.call = "jsr") =>
          /\ fatal = NO_PANIC
          /\ program_counter = op.arg.a + 3
          /\ stack_base = op.arg.b

(***************************************************************************)
(* JMP absolute and JSR at 0x0600 with every 16-bit target as the operand. *)
(***************************************************************************)
AbsoluteJumpCodes == {\h4C, \h20}

InitJump ==
    \E code \in AbsoluteJumpCodes, t \in 0 .. 65535 :
        \E c \in {Prepared(TRUE, <<code, t % 256, t \div 256>>, \h11, \h22, \h33, \h00)} :
            StartsAs(c, <<>>, "Running")

SpecJump == InitJump /\ [][Step]_vars

\* C24: a step that executes JMP absolute or JSR ends with program_counter
\* equal to the 16-bit operand, whatever the operand is.
C24_AbsoluteJump ==
    (op.kind = "step" /\ op.code \in AbsoluteJumpCodes) =>
        /\ fatal = NO_PANIC
        /\ program_counter = OperandWord

\* the bytes of RAM outside the stack page 0x0100..0x01FF are as before the step
StackWritesInPage ==
    \A addr \in 0 .. \h07FF :
        (addr < \h0100 \/ addr > \h01FF) =>
            VramGet(cpu_vram, addr) = VramGet(op.pre.cpu_vram, addr)

\* the byte of the stack page a pop reads once the offset has moved to `base`
PoppedByte(base) == VramGet(op.pre.cpu_vram, PushAddress(base, 0))

\* C25: in every state the instructions reach, stack_pointer is 0x01FF and
\* the stack offset is a byte; a push (PHA, JSR) writes only inside
\* 0x0100..0x01FF, at 0x01FF minus the offset, and a pop (0x08, PLP, RTS)
\* returns the byte at 0x01FF minus the moved offset, inside the page.
C25_StackPage ==
    /\ stack_pointer = \h01FF
    /\ stack_base \in Byte
    /\ (op.kind = "step" /\ fatal = NO_PANIC) =>
          /\ op.code \in {\h48, \h20} =>
                /\ StackWritesInPage
                /\ PushAddress(op.pre.stack_base, 0) \in \h0100 .. \h01FF
                /\ stack_base = (op.pre.stack_base + (IF op.code = \h48 THEN 1 ELSE 2)) % 256
          /\ op.code = \h48 =>
                VramGet(cpu_vram, PushAddress(op.pre.stack_base, 0)) = op.pre.accumulator
          /\ op.code \in {\h08, \h28, \h60} =>
                /\ cpu_vram = op.pre.cpu_vram
                /\ PushAddress(stack_base, 0) \in \h0100 .. \h01FF
          /\ op.code = \h08 => accumulator = PoppedByte(stack_base)
          /\ op.code = \h28 => processor_status = PoppedByte(stack_base)
          /\ op.code = \h60 =>
                /\ stack_base = (op.pre.stack_base - 2) % 256
                /\ program_counter
                      = PoppedByte(stack_base) * 256 + PoppedByte((stack_base + 1) % 256) + 1

\* PHA at stack offset 0xFF: the byte lands at 0x0100 and the offset wraps to 0
C25_Witness ==
    /\ Stepped(\h48)
    /\ op.pre.stack_base = \hFF /\ op.pre.accumulator = \h81
    /\ stack_base = \h00
    /\ VramGet(cpu_vram, \h0100) = \h81
    /\ stack_pointer = \h01FF

\* C26: a PLP that takes a byte pushed and not yet popped leaves the whole
\* status byte equal to that byte (the most recent such push) and the stack
\* offset one below its value before the PLP.
C26_Plp ==
    (op.kind = "step" /\ op.code = \h28 /\ op.arg.call = "byte") =>
        /\ fatal = NO_PANIC
        /\ processor_status = op.arg.a
        /\ stack_base = (op.pre.stack_base - 1) % 256
        /\ stack_base = op.arg.b

\* cpu_acc_stack: after PHA of 1 and PHA of 2, PLP leaves status 0x02 (Zero)
\* with the 1 still pushed
C26_Witness ==
    /\ Stepped(\h28)
    /\ op.arg.call = "byte" /\ op.arg.a = \h02
    /\ op.pre.processor_status # \h02
    /\ processor_status = \h02
    /\ script # <<>> /\ Head(script).a = \h01
    /\ stack_base = (op.pre.stack_base - 1) % 256

\* C27: the step on opcode 0x08 writes the status byte to the stack at the
\* stack offset, advances the offset by one, and leaves accumulator and
\* status as they were.
C27_Php ==
    (op.kind = "step" /\ op.code = \h08) =>
        /\ fatal = NO_PANIC
        /\ read_mem_u8(CPU, PushAddress(op.pre.stack_base, 0)) = op.pre.processor_status
        /\ stack_base = (op.pre.stack_base + 1) % 256
        /\ accumulator = op.pre.accumulator
        /\ processor_status = op.pre.processor_status

\* C29: the step on opcode 0x9A (TXS) puts X into the stack-pointer state
\* (as the pointer's low byte, or as the offset counted from either end) and
\* leaves Zero, Negative, accumulator, X and Y as they were.
C29_Txs ==
    (op.kind = "step" /\ op.code = \h9A) =>
        /\ fatal = NO_PANIC
        /\ \/ stack_base = \hFF - op.pre.index_register_x
           \/ stack_base = op.pre.index_register_x
           \/ stack_pointer % 256 = op.pre.index_register_x
        /\ Bit(processor_status, 1) = Bit(op.pre.processor_status, 1)
        /\ Bit(processor_status, 7) = Bit(op.pre.processor_status, 7)
        /\ accumulator = op.pre.accumulator
        /\ index_register_x = op.pre.index_register_x
        /\ index_register_y = op.pre.index_register_y

\* SEC, CLC, SEI, CLI, SED, CLD, CLV
StatusCodes == {\h38, \h18, \h78, \h58, \hF8, \hD8, \hB8}

\* the flag the status opcode `code` names
StatusFlag(code) ==
    CASE code \in {\h38, \h18} -> CarryFlag
      [] code \in {\h78, \h58} -> InterruptDisable
      [] code \in {\hF8, \hD8} -> DecimalMode
      [] code = \hB8 -> Overflow

\* C28: a step on SEC, SEI or SED sets, and on CLC, CLI, CLD or CLV clears,
\* the one flag the opcode names; the other seven status bits, accumulator,
\* X, Y, the stack and memory are as before, and program_counter is one more.
C28_StatusOpcodes ==
    (op.kind = "step" /\ op.code \in StatusCodes) =>
        LET flag == StatusFlag(op.code)
            before == op.pre.processor_status
        IN /\ fatal = NO_PANIC
           /\ processor_status =
                 (IF op.code \in {\h38, \h78, \hF8}
                  THEN before + (IF BitAnd(before, flag) = 0 THEN flag ELSE 0)
                  ELSE before - (IF BitAnd(before, flag) = 0 THEN 0 ELSE flag))
           /\ accumulator = op.pre.accumulator
           /\ index_register_x = op.pre.index_register_x
           /\ index_register_y = op.pre.index_register_y
           /\ stack_base = op.pre.stack_base
           /\ stack_pointer = op.pre.stack_pointer
           /\ cpu_vram = op.pre.cpu_vram
           /\ program_counter = op.pre.program_counter + 1

\* CLV on a status with every flag set clears Overflow alone, and SEC on an
\* empty status would set Carry alone
C28_Witness ==
    /\ Stepped(\hB8)
    /\ op.pre.processor_status = \hFF
    /\ processor_status = \hBF
    /\ op.pre.accumulator = \h81 /\ accumulator = \h81
    /\ program_counter = op.pre.program_counter + 1


(***************************************************************************)
(* BIT on a zero-page and on an absolute operand, for every accumulator,   *)
(* over operand bytes with and without bits 6 and 7, from a status with    *)
(* no flag and with every flag set.                                        *)
(***************************************************************************)
BitCodes == {\h24, \h2C}

BitAddress == \h0010

BitOperands == {\h00, \h01, \h40, \h80, \hC0, \hFF}

InitBit ==
    \E code \in BitCodes, a \in Byte, m \in BitOperands, status \in {\h00, \hFF},
       checks \in BOOLEAN :
        \E c \in {write_mem_u8(Prepared(checks, <<code, \h10, \h00>>, a, \h00, \h00, status),
                               BitAddress, m)} :
            StartsAs(c, <<>>, "Running")

SpecBit == InitBit /\ [][Step]_vars

\* C30: after BIT of the accumulator A against the operand byte M, Zero is
\* set exactly when (A & M) = 0, whatever Zero was before, and the
\* accumulator is unchanged.
C30_BitZero ==
    (op.kind = "step" /\ op.code \in BitCodes) =>
        /\ fatal = NO_PANIC
        /\ (Bit(processor_status, 1) = 1)
               <=> (BitAnd(op.pre.accumulator, VramGet(op.pre.cpu_vram, BitAddress)) = 0)
        /\ accumulator = op.pre.accumulator


\* C31: after BIT, Negative is bit 6 and Overflow is bit 7 of the operand
\* byte M itself, whatever the accumulator holds.
C31_BitOperandFlags ==
    (op.kind = "step" /\ op.code \in BitCodes) =>
        LET m == VramGet(op.pre.cpu_vram, BitAddress)
        IN /\ fatal = NO_PANIC
           /\ Bit(processor_status, 7) = Bit(m, 6)
           /\ Bit(processor_status, 6) = Bit(m, 7)


(***************************************************************************)
(* ASL, LSR, ROL and ROR in every form: the accumulator forms over every   *)
(* accumulator, the memory forms over every byte m at the operand's        *)
(* address 0x0002 with an accumulator whose bit 0 is clear and one whose   *)
(* bit 0 is set, and ROL followed by ROR on the same byte with a copy of   *)
(* m kept in X.  Each from a status with no flag and with every flag set.  *)
(***************************************************************************)
ShiftAddress == \h0002

\* the zero-page opcodes of ASL, LSR, ROL, ROR
ShiftZeroPageCodes == {\h06, \h46, \h26, \h66}

\* the four memory forms of the instruction whose zero-page opcode is z, each
\* with operand bytes and X that resolve to ShiftAddress
MemoryForms(z) ==
    {[program |-> <<z, \h02>>, x |-> \h00],
     [program |-> <<z + \h10, \h01>>, x |-> \h01],
     [program |-> <<z + \h08, \h02, \h00>>, x |-> \h00],
     [program |-> <<z + \h18, \h01, \h00>>, x |-> \h01]}

ShiftMemoryForms == UNION {MemoryForms(z) : z \in ShiftZeroPageCodes}

ShiftMemoryCodes == {f.program[1] : f \in ShiftMemoryForms}

\* ASL A, LSR A, ROL A, ROR A
ShiftAccumulatorCodes == {\h0A, \h4A, \h2A, \h6A}

RolCodes == {\h2A} \cup {f.program[1] : f \in MemoryForms(\h26)}

RorCodes == {\h6A} \cup {f.program[1] : f \in MemoryForms(\h66)}

\* ROL then ROR on 0x0002, zero-page and absolute
RoundTripPrograms == {<<\h26, \h02, \h66, \h02>>, <<\h2E, \h02, \h00, \h6E, \h02, \h00>>}

InitShift ==
    \E status \in {\h00, \hFF} :
        \/ \E code \in ShiftAccumulatorCodes, a \in Byte :
               \E c \in {Prepared(TRUE, <<code>>, a, \h00, \h33, status)} :
                   StartsAs(c, <<>>, "Running")
        \/ \E f \in ShiftMemoryForms, m \in Byte, a \in {\h10, \h81} :
               \E c \in {write_mem_u8(Prepared(TRUE, f.program, a, f.x, \h33, status),
                                      ShiftAddress, m)} :
                   StartsAs(c, <<>>, "Running")
        \/ \E program \in RoundTripPrograms, m \in Byte, a \in {\h10, \h81} :
               \E c \in {write_mem_u8(Prepared(TRUE, program, a, m, \h33, status),
                                      ShiftAddress, m)} :
                   StartsAs(c, <<>>, "Running")

SpecShift == InitShift /\ [][Step]_vars

\* the operand of the shift the last step executed, before the step
ShiftOperand ==
    IF op.code \in ShiftAccumulatorCodes
    THEN op.pre.accumulator
    ELSE VramGet(op.pre.cpu_vram, ShiftAddress)

\* the byte at the place the last step's shift wrote its result to
ShiftResult ==
    IF op.code \in ShiftAccumulatorCodes THEN accumulator ELSE VramGet(cpu_vram, ShiftAddress)

\* C32: after ROL of m with carry-in C, in either form, the result is
\* ((m << 1) & 0xFF) | C and Carry is bit 7 of m.
C32_Rol ==
    (op.kind = "step" /\ op.code \in RolCodes) =>
        /\ fatal = NO_PANIC
        /\ ShiftResult = ((ShiftOperand * 2) % 256) + Bit(op.pre.processor_status, 0)
        /\ Bit(processor_status, 0) = Bit(ShiftOperand, 7)


\* C33: after ROR of m with carry-in C, in either form, the result is
\* (m >> 1) | (C << 7) and Carry is bit 0 of m, whatever the accumulator
\* holds in the memory form.
C33_Ror ==
    (op.kind = "step" /\ op.code \in RorCodes) =>
        /\ fatal = NO_PANIC
        /\ ShiftResult = (ShiftOperand \div 2) + 128 * Bit(op.pre.processor_status, 0)
        /\ Bit(processor_status, 0) = Bit(ShiftOperand, 0)

\* C34: after ASL, LSR, ROL or ROR in either form, Zero is set exactly when
\* the result is 0 and Negative exactly when bit 7 of the result is 1.
C34_ShiftZeroNegative ==
    (op.kind = "step" /\ op.code \in ShiftAccumulatorCodes \cup ShiftMemoryCodes) =>
        /\ fatal = NO_PANIC
        /\ (Bit(processor_status, 1) = 1) <=> (ShiftResult = 0)
        /\ Bit(processor_status, 7) = Bit(ShiftResult, 7)


\* C35: ROL on the byte m at a location and then ROR on the same location
\* leave the byte equal to m (X holds the copy of m), for every carry-in.
C35_RotateRoundTrip ==
    (op.kind = "step" /\ op.code \in {\h66, \h6E} /\ op.pre.program_counter > \h0600) =>
        /\ fatal = NO_PANIC
        /\ VramGet(cpu_vram, ShiftAddress) = index_register_x

\* the byte 0xFF, rotated left to 0xFE with Carry set, is 0xFF again after ROR
C35_Witness ==
    /\ Stepped(\h66)
    /\ op.pre.program_counter = \h0602
    /\ index_register_x = \hFF
    /\ VramGet(op.pre.cpu_vram, ShiftAddress) = \hFE
    /\ VramGet(cpu_vram, ShiftAddress) = \hFF


(***************************************************************************)
(* Stores through the zero-page indexed and the indirect modes: the cell   *)
(* that changes is the address get_operand_address resolved.  Page zero    *)
(* holds pointers at 0x00, 0x10 and across its end at 0xFF / 0x00, and     *)
(* 0x0100 holds a byte that a pointer read past the page would pick up.    *)
(***************************************************************************)
\* STA zp,X ; STX zp,Y ; STA (zp,X) ; STA (zp),Y
ResolveCodes == {\h95, \h96, \h81, \h91}

ResolveOperands == {\h00, \h10, \h80, \hFE, \hFF}

ResolveIndexes == {\h00, \h01, \h02, \h03, \h80, \hFF}

\* cell 0x0000 = 0x03, 0x0001 = 0x04, 0x0010 = 0xFE, 0x0011 = 0xFF,
\* 0x00FF = 0xF0, 0x0100 = 0x07
ResolveMemory(c) ==
    write_mem_u8(write_mem_u8(write_mem_u8(write_mem_u8(write_mem_u8(write_mem_u8(
        c, \h0000, \h03), \h0001, \h04), \h0010, \hFE), \h0011, \hFF),
        \h00FF, \hF0), \h0100, \h07)

InitResolve ==
    \E code \in ResolveCodes, operand \in ResolveOperands, i \in ResolveIndexes,
       a \in {\hA5, \h5A}, checks \in BOOLEAN :
        \E c \in {ResolveMemory(Prepared(checks, <<code, operand>>, a,
                                         IF code = \h96 THEN a ELSE i, i, \h00))} :
            StartsAs(c, <<>>, "Running")

SpecResolve == InitResolve /\ [][Step]_vars

\* the little-endian word whose bytes are at p and (p + 1) mod 256 before the step
ZeroPageWord(p) ==
    VramGet(op.pre.cpu_vram, p) + 256 * VramGet(op.pre.cpu_vram, (p + 1) % 256)

\* the address the claim gives for the store the last step executed
ResolveTarget ==
    CASE op.code = \h95 -> (OperandByte + op.pre.index_register_x) % 256
      [] op.code = \h96 -> (OperandByte + op.pre.index_register_y) % 256
      [] op.code = \h81 -> ZeroPageWord((OperandByte + op.pre.index_register_x) % 256)
      [] op.code = \h91 -> (ZeroPageWord(OperandByte) + op.pre.index_register_y) % 65536

\* C36: ZeroPageX / ZeroPageY resolve to (operand + index) mod 256; IndirectX
\* reads its pointer at p = (operand + X) mod 256 and (p + 1) mod 256;
\* IndirectY reads its pointer at operand and (operand + 1) mod 256 and adds
\* Y with 16-bit wrap: the store writes that address and no other.
C36_ZeroPageWrap ==
    (op.kind = "step" /\ op.code \in ResolveCodes) =>
        /\ fatal = NO_PANIC
        /\ cpu_vram = write_mem_u8(op.pre, ResolveTarget, op.pre.accumulator).cpu_vram

\* STA ($FF,X) with X = 0 takes its pointer from 0x00FF and 0x0000 and
\* writes 0x03F0; STA ($10),Y with Y = 3 wraps 0xFFFE + 3 to 0x0001
C36_Witness ==
    \/ /\ Stepped(\h81)
       /\ OperandByte = \hFF
       /\ op.pre.index_register_x = \h00
       /\ VramGet(op.pre.cpu_vram, \h03F0) = \h00
       /\ VramGet(cpu_vram, \h03F0) = \hA5
       /\ VramGet(cpu_vram, \h07F0) = \h00
    \/ /\ Stepped(\h91)
       /\ OperandByte = \h10
       /\ op.pre.index_register_y = \h03
       /\ VramGet(cpu_vram, \h0001) = \hA5


(***************************************************************************)
(* The observer hook.  The loop iteration in two steps: callback(self) at   *)
(* the top of the loop, then the fetch and the instruction.  `script` is    *)
(* the log of the two events, "hook" and "fetch"; run_state "Hooked" is    *)
(* the point between the callback and the fetch.  The callbacks of the     *)
(* repository (run's empty closure, main's print and sleep) leave the CPU  *)
(* as it is.                                                               *)
(***************************************************************************)
MaxEvents == 12

\* a program that starts with any byte, and programs of NOPs, of a lone
\* break, of a jump into the peripheral window and of a jump to itself
HookPrograms ==
    {<<code, \hEA, \h06, \hEA>> : code \in Byte}
        \cup {<<\hEA, \hEA, \hEA>>, <<\h00>>, <<\hEA, \h4C, \h00, \h20>>,
              <<\hA9, \h01, \hEA, \hAA>>, <<\hEA, \h4C, \h00, \h06>>}

InitHook ==
    \E program \in HookPrograms, checks \in BOOLEAN :
        \E c \in {Prepared(checks, program, \h00, \h00, \h00, \h00)} :
            StartsAs(c, <<>>, "Running")

\* where the loop is after the arm of `code`: break leaves it, every other
\* arm, and the `continue` of NOP, goes back to the callback at the top
loop_position_skipping_hook(c, code) ==
    IF c.fatal # NO_PANIC THEN "Fatal"
    ELSE IF code = \h00 THEN "Halted"
    ELSE IF code = \hEA THEN "Hooked"
    ELSE "Running"

loop_position(c, code) ==
    IF c.fatal # NO_PANIC THEN "Fatal"
    ELSE IF code = \h00 THEN "Halted"
    ELSE "Running"

\* callback(self)
Hook ==
    /\ run_state = "Running"
    /\ Len(script) < MaxEvents
    /\ Becomes(CPU)
    /\ run_state' = "Hooked"
    /\ script' = Append(script, "hook")
    /\ op' = [kind |-> "hook", code |-> -1, arg |-> -1, pre |-> CPU]

\* the rest of the iteration: the fetch, the table lookup, the arm, the advance
HookedStep ==
    /\ run_state = "Hooked"
    /\ \E c \in {run_step(CPU)} :
          /\ Becomes(c)
          /\ run_state' = loop_position(c, fetch(CPU))
          /\ op' = [kind |-> "step", code |-> fetch(CPU), arg |-> -1, pre |-> CPU]
    /\ script' = Append(script, "fetch")

SpecHook == InitHook /\ [][Hook \/ HookedStep]_vars

\* the number of events e in the log
Count(e) == Cardinality({i \in 1..Len(script) : script[i] = e})

\* C37: the hook is called once before every fetch and never between a
\* fetch and the end of its instruction: the log alternates hook, fetch,
\* and outside an iteration the hook calls are as many as the fetches.
C37_HookOrdering ==
    /\ \A i \in 1..Len(script) : script[i] = (IF i % 2 = 1 THEN "hook" ELSE "fetch")
    /\ run_state = "Hooked" => Count("hook") = Count("fetch") + 1
    /\ run_state # "Hooked" => Count("hook") = Count("fetch")

\* three NOPs and the final break: four fetches, four hook calls
C37_Witness ==
    /\ run_state = "Halted"
    /\ Stepped(\h00)
    /\ op.pre.program_counter = \h0603
    /\ VramGet(cpu_vram, \h0600) = \hEA
    /\ VramGet(cpu_vram, \h0601) = \hEA
    /\ VramGet(cpu_vram, \h0602) = \hEA
    /\ Count("hook") = 4
    /\ Count("fetch") = 4


(***************************************************************************)
(* Programs that store into their own bytes.  LDA #v ; STA t ; INY ;       *)
(* LDX #7 ; BRK, where t is the address of the INY opcode (0x0605) or of   *)
(* the LDX operand (0x0607), named directly or through one of the three    *)
(* mirrors.  `script` is a record of the byte last written to each         *)
(* physical RAM cell, kept from the program as loaded and the operands of  *)
(* the stores, apart from the memory the bus keeps.                        *)
(***************************************************************************)
\* INX, INY, NOP, BRK, LDA #: bytes whose instructions write no memory
StoredBytes == {\hE8, \hC8, \hEA, \h00, \hA9}

StoreTargets == {\h0605 + mirror : mirror \in {\h0000, \h0800, \h1000, \h1800}}
                    \cup {\h0607, \h0E07}

SelfModifyingProgram(v, t) ==
    <<\hA9, v, \h8D, t % 256, t \div 256, \hC8, \hA2, \h07, \h00>>

\* the cells load_program wrote, with the bytes it wrote there
Loaded(program) == [i \in \h0600..(\h0600 + Len(program) - 1) |-> program[i - \h0600 + 1]]

InitSelfModifying ==
    \E v \in StoredBytes, t \in StoreTargets, checks \in BOOLEAN :
        \E program \in {SelfModifyingProgram(v, t)} :
            \E c \in {Prepared(checks, program, \h00, \h00, \h00, \h00)} :
                StartsAs(c, Loaded(program), "Running")

\* the record after the iteration on `code`: STA absolute writes the
\* accumulator to the cell its operand word names, every mirror of the RAM
\* being the same cell
Written(code, last, c) ==
    IF code = \h8D
    THEN LET t == read_mem_u8(c, c.program_counter + 1)
                      + 256 * read_mem_u8(c, c.program_counter + 2)
         IN IF t < \h2000 THEN (t % \h0800 :> c.accumulator) @@ last ELSE last
    ELSE last

\* one iteration of the run loop; op.arg is the record before it
RecordedStep ==
    /\ run_state = "Running"
    /\ \E c \in {run_step(CPU)}, code \in {fetch(CPU)} :
          /\ Becomes(c)
          /\ run_state' = IF c.fatal # NO_PANIC THEN "Fatal"
                          ELSE IF run_breaks(CPU) THEN "Halted"
                          ELSE "Running"
          /\ op' = [kind |-> "step", code |-> code, arg |-> script, pre |-> CPU]
          /\ script' = IF c.fatal # NO_PANIC THEN script ELSE Written(code, script, CPU)

SpecSelfModifying == InitSelfModifying /\ [][RecordedStep]_vars

\* the byte last written to the RAM cell of addr, 0 if none was
LastWritten(last, addr) ==
    IF addr % \h0800 \in DOMAIN last THEN last[addr % \h0800] ELSE 0

\* C38: the opcode and the operand bytes of every iteration are the bytes
\* last written to their RAM cells, by load_program or by an earlier store
\* through any mirror; and the instruction acts on them: the byte stored
\* over INY runs in its place, the byte stored over the operand of LDX is
\* what X receives.
C38_FetchLastWritten ==
    (op.kind = "step") =>
        LET pc == op.pre.program_counter
        IN /\ op.code = LastWritten(op.arg, pc)
           /\ op.code \in DOMAIN OPCODES_MAP =>
                 \A k \in 1..(OPCODES_MAP[op.code].bytes - 1) :
                     read_mem_u8(op.pre, pc + k) = LastWritten(op.arg, pc + k)
           /\ (pc = \h0605 /\ op.code = \hE8) => index_register_x = 1 /\ index_register_y = 0
           /\ (pc = \h0605 /\ op.code = \hC8) => index_register_y = 1
           /\ (pc = \h0606 /\ op.code = \hA2) =>
                 index_register_x = LastWritten(op.arg, \h0607)

\* INX stored over INY through the mirror 0x0E05 has run in its place, and
\* the run has gone on to LDX
C38_Witness ==
    /\ Stepped(\hA2)
    /\ op.pre.program_counter = \h0606
    /\ op.pre.index_register_x = 1
    /\ index_register_y = 0
    /\ VramGet(cpu_vram, \h0603) = \h05
    /\ VramGet(cpu_vram, \h0604) = \h0E
    /\ VramGet(cpu_vram, \h0605) = \hE8
    /\ index_register_x = \h07


(***************************************************************************)
(* Instructions whose operand lies in the peripheral window.  LDA #v ;     *)
(* STA $07FF ; JMP $1FFF puts the byte v in the last cell of the RAM and   *)
(* runs it through the last mirror, at 0x1FFF, so that its operand bytes   *)
(* are at 0x2000 and 0x2001; every byte v.                                 *)
(***************************************************************************)
WindowEdgeProgram(v) == <<\hA9, v, \h8D, \hFF, \h07, \h4C, \hFF, \h1F>>

InitFatal ==
    \E v \in Byte, checks \in BOOLEAN, status \in {\h00, \hFF} :
        \E c \in {Prepared(checks, WindowEdgeProgram(v), \h00, \h01, \h02, status)} :
            StartsAs(c, <<>>, "Running")

SpecFatal == InitFatal /\ [][Step]_vars

\* C39: an iteration that ends in the panic of the peripheral window or of
\* an unsupported addressing mode leaves accumulator, X, Y, the status, the
\* stack offset and every RAM byte as they were before its fetch.
C39_FatalStepAtomic ==
    (op.kind = "step" /\ fatal \in {PANIC_PPU, PANIC_MODE}) =>
        /\ accumulator = op.pre.accumulator
        /\ index_register_x = op.pre.index_register_x
        /\ index_register_y = op.pre.index_register_y
        /\ processor_status = op.pre.processor_status
        /\ stack_base = op.pre.stack_base
        /\ cpu_vram = op.pre.cpu_vram


\* C40: every byte that has an entry in the opcode table has an arm of its
\* own in the run loop: an iteration on such a byte never ends in the
\* default arm, and no run does.
C40_DispatchComplete ==
    /\ fatal # PANIC_TODO
    /\ (op.kind = "step" /\ op.code \in DOMAIN OPCODES_MAP) =>
           fatal \notin {PANIC_TODO, PANIC_OPCODE}

\* RTI, the last arm but break, has run from the table's entry for 0x40
C40_Witness ==
    /\ Stepped(\h40)
    /\ \h40 \in DOMAIN OPCODES_MAP
    /\ fatal = NO_PANIC
    /\ run_state = "Running"

====
